---- MODULE Spec2Model ----
(***************************************************************************)
(* next-auto-logger: the universal logger core (src/index.ts in its two    *)
(* revisions, src/src/index.ts and src/unnamed/part_002), modelled as a    *)
(* state machine of the JavaScript event loop.  An action is one task of   *)
(* the event loop (an application call, a network completion, a timer)     *)
(* together with every continuation it makes runnable: the code after an   *)
(* await runs before the event loop takes its next task.                   *)
(***************************************************************************)
EXTENDS Integers, Sequences, FiniteSets, TLC

\* ------------------------------------------------------------------ bounds

\* events the application dispatches itself (handle.log, level method) per run
MaxOps == 2
\* requests the application makes (fetch, axios) per run; every one brings
\* the POSTs of its events with it, which pass through the wrapper as well
MaxRequests == 1
\* createLogger calls made by the application after module load
MaxConfigs == 1
\* createLogger calls of the application where the calls are what is studied.
MaxSetups == 2
MaxEmitters == 2
MaxTicks == 1
MaxClients == 2
MaxApiOps == 4

\* ------------------------------------------------------------------ values

\* Option encoding of an optional (possibly undefined) value.
None == {}
Some(x) == {x}
The(o) == CHOOSE x \in o : TRUE

\* URLs are strings, modelled as sequences of characters.
EndpointA == <<"l">>
EndpointB == <<"m">>
UrlData == <<"d">>
UrlHealth == <<"d", "h">>
UrlViaLogs == <<"d", "l">>
UrlUnknown == <<"u">>
AppFetchUrls == {UrlData, UrlHealth}

\* String.prototype.includes
Includes(u, p) ==
  \E i \in 0..(Len(u) - Len(p)) : SubSeq(u, i + 1, i + Len(p)) = p

\* Patterns of excludeUrls: a string, or a RegExp with a literal source and
\* possibly the g flag.  One RegExp object with the g flag exists (ReHealthG);
\* its lastIndex is the variable reLastIndex.
StrHealth == [re |-> FALSE, src |-> <<"h">>, global |-> FALSE]
ReHealth == [re |-> TRUE, src |-> <<"h">>, global |-> FALSE]
ReHealthG == [re |-> TRUE, src |-> <<"h">>, global |-> TRUE]

\* RegExp.prototype.test for a literal source: [hit, li], li the new lastIndex.
\* Without the g flag the search starts at 0 and lastIndex is left alone; with
\* it the search starts at lastIndex, which becomes the end of the match, or 0
\* when there is none.
RegExpTest(p, u, li) ==
  LET from == IF p.global THEN li ELSE 0
      at == {i \in from..(Len(u) - Len(p.src)) : SubSeq(u, i + 1, i + Len(p.src)) = p.src}
  IN  IF at = {}
        THEN [hit |-> FALSE, li |-> IF p.global THEN 0 ELSE li]
        ELSE LET i == CHOOSE j \in at : \A k \in at : j <= k
             IN  [hit |-> TRUE, li |-> IF p.global THEN i + Len(p.src) ELSE li]

\* A merge in which the keys of a would win.
SpreadKeepLeft(a, b) ==
  [k \in (DOMAIN a) \cup (DOMAIN b) |-> IF k \in DOMAIN a THEN a[k] ELSE b[k]]

\* Object spread {...a, ...b}: the keys of b win.
Spread(a, b) ==
  [k \in (DOMAIN a) \cup (DOMAIN b) |-> IF k \in DOMAIN b THEN b[k] ELSE a[k]]

\* ------------------------------------------------------------------ state

VARIABLES
  variant,          \* which revision of index.ts runs: "index" | "part_002"
  window,           \* a browser global is present
  hasFetch,         \* window.fetch exists
  hasAxios,         \* window.axios exists
  loaded,           \* the module's top level has been evaluated
  loadWindow,       \* whether a browser global was present when it was evaluated
  timerPending,     \* the module-load setTimeout has not fired yet
  globalConfig,     \* the process-wide LoggerConfig
  interceptorsSetup,\* the one-shot flag
  fetchWraps,       \* how many wrappers are stacked on window.fetch
  axiosUses,        \* how many times the axios interceptor pair was registered
  reLastIndex,      \* lastIndex of the RegExp object ReHealthG
  nextId,           \* number of request ids generated so far
  calls,            \* every invocation of fetch (wrapped or native), in order
  logs,             \* every dispatch (logEvent or direct sendToServerAPI), in order
  axios,            \* every axios request
  records,          \* what the emitters wrote in the latest step, in order
  nodeEnv,          \* process.env.NODE_ENV
  logModule,        \* process.env.LOG_MODULE
  emitters,         \* the emitters made by createChildLogger and child()
  ret,              \* what the call of the latest step returned, if it returns an emitter
  perfNow,          \* performance.now(), in thousandths of a millisecond
  measures,         \* the calls of measureDuration and measureDurationQuiet
  rateLimitStore,   \* api.ts: client address -> [count, resetTime]
  dateNow,          \* api.ts: Date.now(), in milliseconds since the process started
  apiOut,           \* api.ts: the response of the latest request and what it logged
  admitted,         \* api.ts: <<client address, time>> -> requests checkRateLimit let pass
  pinoThrows,       \* pino(...) throws when it is called (a misconfigured transport)
  warnings,         \* calls of console.warn("Failed to initialize server logger, ...")
  nOps,             \* application operations so far
  nConfigs          \* createLogger calls by the application so far

envVars == <<variant, window, hasFetch, hasAxios>>
setupVars == <<loaded, loadWindow, timerPending, interceptorsSetup, fetchWraps, axiosUses>>
taskVars == <<calls, logs, axios, nextId, reLastIndex, records>>
utilVars == <<nodeEnv, logModule, emitters, ret, perfNow, measures>>
apiVars == <<rateLimitStore, dateNow, apiOut, admitted>>
sinkVars == <<pinoThrows, warnings>>
vars == <<envVars, setupVars, taskVars, utilVars, apiVars, sinkVars, globalConfig, nOps,
          nConfigs>>

\* The defaults of globalConfig; the hooks are absent keys.
DefaultConfig ==
  [enabled |-> TRUE,
   clientLogEndpoint |-> EndpointA,
   excludeUrls |-> <<>>,
   includeBody |-> FALSE,
   includeHeaders |-> FALSE,
   autoSetupInterceptors |-> TRUE]

\* What the application passes to createLogger: nothing, or a partial config.
\* A hook is a function; TRUE stands for "a function is configured".
Partials ==
  { [enabled |-> FALSE],
    [clientLogEndpoint |-> EndpointB],
    [excludeUrls |-> <<StrHealth>>],
    [excludeUrls |-> <<ReHealth>>],
    [excludeUrls |-> <<ReHealthG>>],
    [contextProvider |-> TRUE, transformLog |-> TRUE],
    [onError |-> TRUE],
    [autoSetupInterceptors |-> FALSE] }

\* The partial configs that turn the capture of headers and bodies on.
IncludePartials ==
  { [includeHeaders |-> TRUE], [includeBody |-> TRUE],
    [includeHeaders |-> TRUE, includeBody |-> TRUE] }

\* createLogger called with one of them.
IncludeArgs == {Some(p) : p \in IncludePartials}

Has(cfg, k) == k \in DOMAIN cfg

\* index.ts evaluates `typeof window !== "undefined"` once, at the module's
\* top level (const isClient); part_002 evaluates it at every call (isServer()).
isClient == IF variant = "index" /\ loaded THEN loadWindow ELSE window
\* A context test that would always answer "server".
isServerAlways == TRUE

isServer == ~isClient

\* The emitter the variable logger holds.  index.ts assigns it at the top
\* level; part_002 assigns it in ensureLogger(), which the top level calls
\* (universalLogger = createLogger()).  Either way it is the structured sink
\* when the module was evaluated without a browser global, the console
\* fallback of the catch block when createSimpleLogger() threw, and the
\* client-side fallback when there was a browser global.
loggerKind == IF loadWindow THEN "client" ELSE IF pinoThrows THEN "console" ELSE "pino"


\* ------------------------------------------------------------------ events

\* A request id: generated (generateRequestId), the axios fallback 'unknown',
\* or the one an application put into an event it built itself.
GenId(n) == <<"req", n>>
UnknownId == <<"unknown">>
AppEventId == <<"app">>
NoId == <<"none">>

\* The value the configured contextProvider returns.
ProviderOutput == [user |-> "p"]

\* A RequestEvent.  context is optional; extra holds the names of the fields a
\* transformLog added.
Event(type, id, url, library, context) ==
  [event |-> type, requestId |-> id, url |-> url, library |-> library,
   context |-> context, extra |-> {}]

\* The event with one more field.
WithField(ev, key, value) ==
  [k \in DOMAIN ev \cup {key} |-> IF k = key THEN value ELSE ev[k]]

\* The event with the duration of a terminal event.
Timed(ev, duration) ==
  [k \in DOMAIN ev \cup {"duration"} |-> IF k = "duration" THEN duration ELSE ev[k]]

\* Math.round of a time given in thousandths of a millisecond: the nearest
\* whole millisecond, a half going up.
MathRound(x) == (x + 500) \div 1000

\* performance.timeOrigin, in milliseconds since the epoch: the page was
\* opened after 1970.
TimeOrigin == 1000

\* contextProvider's merge: event.context = {...event.context, ...provider()}
Enrich(ev) ==
  [ev EXCEPT !.context =
    Some(Spread(IF ev.context = None THEN <<>> ELSE The(ev.context), ProviderOutput))]

\* The configured transformLog: it adds a field and rewrites the user key of
\* the context (a redaction), so it does not commute with Enrich.
TransformLog(ev) ==
  [ev EXCEPT
    !.extra = @ \cup {"transformed"},
    !.context = IF ev.context = None THEN None
                ELSE Some([k \in DOMAIN The(ev.context) |->
                            IF k = "user" THEN "t" ELSE The(ev.context)[k]])]

\* JSON.stringify of an event: a key whose value is undefined is left out.
JSONstringify(ev) ==
  [k \in (DOMAIN ev) \ (IF ev.context = None THEN {"context"} ELSE {}) |-> ev[k]]

\* ------------------------------------------------------------------ shouldLog

\* excludeUrls.some(...): the patterns are tried in order until one matches;
\* testing a RegExp with the g flag moves its lastIndex.
RECURSIVE SomeMatch(_, _, _)
SomeMatch(pats, u, li) ==
  IF pats = <<>> THEN [hit |-> FALSE, li |-> li]
  ELSE LET p == Head(pats)
           r == IF p.re THEN RegExpTest(p, u, li)
                ELSE [hit |-> Includes(u, p.src), li |-> li]
       IN  IF r.hit THEN r ELSE SomeMatch(Tail(pats), u, r.li)

\* shouldLog(url) with ReHealthG.lastIndex = li: [ok, li], li the lastIndex
\* afterwards.
shouldLog(url, li) ==
  IF ~globalConfig.enabled THEN [ok |-> FALSE, li |-> li]
  ELSE IF Includes(url, globalConfig.clientLogEndpoint)
    THEN [ok |-> FALSE, li |-> li]
  ELSE LET r == SomeMatch(globalConfig.excludeUrls, url, li)
       IN  [ok |-> ~r.hit, li |-> r.li]

\* ------------------------------------------------------------------ records

\* An invocation of fetch.  layer is the number of wrappers the invoked
\* function has around the native fetch (0: the native fetch itself).
\*   parent  the dispatch (index into logs) whose POST this is, 0 otherwise
\*   outer   the wrapper invocation (index into calls) whose originalFetch
\*           this is, 0 otherwise
\*   log     the dispatch this wrapper is awaiting, inner: the call it awaits
\*   orig    the outcome of originalFetch: none (not invoked), pending,
\*           ok / notok (resolved, response.ok or not), rejected
\*   caught  what the catch block holds: none, orig (the original's error),
\*           log (an error thrown by the dispatch of the success event)
\*   result  pending, response, origError, logError
\* The second argument of fetch, as far as the wrapper looks at it: headers
\* and body, each absent or given.  A body is [kind, value]: a string that is
\* a JSON text (value is what it denotes) or any other body.
NoInit == [headers |-> None, body |-> None]
PostInit(body) ==
  [headers |-> Some([contentType |-> "application/json"]),
   body |-> Some([kind |-> "json", value |-> The(body)])]
Inits ==
  { NoInit,
    [headers |-> Some([authorization |-> "secret"]),
     body |-> Some([kind |-> "text", value |-> <<"x">>])] }

NewCall(url, parent, outer, layer, body) ==
  [url |-> url, parent |-> parent, outer |-> outer, layer |-> layer,
   body |-> body, reqId |-> NoId,
   pc |-> IF layer = 0 THEN "net" ELSE "init",
   orig |-> IF layer = 0 THEN "pending" ELSE "none",
   caught |-> "none", result |-> "pending", log |-> 0, inner |-> 0, startTime |-> 0,
   init |-> IF body = None THEN NoInit ELSE PostInit(body)]

\* A dispatch: one call of logEvent, or of sendToServerAPI by a client-side
\* level method.
\*   src      fetch | axios | app (handle.log) | manual (level method)
\*   by       the wrapper invocation or axios request that built the event
\*   awaited  the caller awaits the returned promise
\*   outcome  dropped, ctxThrew, tlThrew, emitted, emitThrew, notSent,
\*            noFetch, posted
\*   final    the event after the hooks, when it got that far
\*   post     the POST (index into calls), 0 when none was issued
\*   onError  how many times onError was called for this dispatch
\*   enabled, endpoint, excludeUrls
\*            those keys of globalConfig when the dispatch was made
\*   client   a browser global was present when the dispatch was made
\*   includeHeaders, includeBody
\*            those keys of globalConfig when the dispatch was made
LogRec(ev, src, by, awaited, outcome, result, ctxCalled, tlCalled, final, level, post, onErr) ==
  [ev |-> ev, src |-> src, by |-> by, awaited |-> awaited, outcome |-> outcome,
   result |-> result, ctxCalled |-> ctxCalled, tlCalled |-> tlCalled,
   final |-> final, level |-> level, post |-> post, onError |-> onErr,
   enabled |-> globalConfig.enabled, endpoint |-> globalConfig.clientLogEndpoint,
   excludeUrls |-> globalConfig.excludeUrls, client |-> window,
   includeHeaders |-> globalConfig.includeHeaders, includeBody |-> globalConfig.includeBody]

\* The part of the state the continuations work on.
Cur ==
  [calls |-> calls, logs |-> logs, axios |-> axios, nextId |-> nextId, li |-> reLastIndex,
   records |-> records]

\* Every state is one in which no continuation is runnable, so a settled
\* promise has been consumed by whoever awaited it.  When the event loop takes
\* its next task, the records of the dispatches and invocations that settled
\* before keep what identifies them (the event, its origin, the tree of
\* calls) and drop how they went.
Retire(s) ==
  [s EXCEPT
    !.calls = [c \in DOMAIN s.calls |->
      IF s.calls[c].pc \in {"done", "retired"}
        THEN [s.calls[c] EXCEPT !.pc = "retired", !.body = None, !.orig = "-",
                                !.caught = "-", !.result = "-", !.log = 0, !.inner = 0,
                                !.startTime = 0, !.init = NoInit]
        ELSE s.calls[c]],
    !.logs = [l \in DOMAIN s.logs |->
      IF s.logs[l].result # "pending"
        THEN [s.logs[l] EXCEPT !.outcome = "retired", !.result = "settled",
                               !.ctxCalled = FALSE, !.tlCalled = FALSE, !.final = None,
                               !.level = "-", !.post = 0, !.onError = 0, !.enabled = TRUE,
                               !.endpoint = <<>>, !.excludeUrls = <<>>, !.client = FALSE,
                               !.includeHeaders = FALSE, !.includeBody = FALSE]
        ELSE s.logs[l]],
    !.records = <<>>]

\* ------------------------------------------------------------------ dispatch

\* The catch block of sendToServerAPI: onError, when configured, is called
\* with the error; it returns or throws.
CatchOutcomes ==
  IF Has(globalConfig, "onError")
    THEN {[result |-> "resolved", onErr |-> 1], [result |-> "rejected", onErr |-> 1]}
    ELSE {[result |-> "resolved", onErr |-> 0]}

\* sendToServerAPI(event) up to its await: nothing on the server or without an
\* endpoint; otherwise fetch(endpoint, {method: 'POST', body}) is called, which
\* is whatever window.fetch is at that moment.  Without a fetch the call throws
\* at once and the catch block runs.  logIdx is the dispatch this is part of.
sendToServerAPI(fin, logIdx) ==
  IF isServer \/ globalConfig.clientLogEndpoint = <<>>
    THEN {[outcome |-> "notSent", result |-> "resolved", post |-> None, onErr |-> 0]}
  ELSE IF ~hasFetch
    THEN {[outcome |-> "noFetch", result |-> c.result, post |-> None, onErr |-> c.onErr]
            : c \in CatchOutcomes}
  ELSE {[outcome |-> "posted", result |-> "pending", onErr |-> 0,
         post |-> Some(NewCall(globalConfig.clientLogEndpoint, logIdx, 0, fetchWraps,
                               Some(JSONstringify(fin))))]}

\* How a configured hook may behave on one call.
HookRuns(key) == IF Has(globalConfig, key) THEN {"returns", "throws"} ELSE {"absent"}

\* The state s with the dispatch record rec, and the POST it issued, added.
Recorded(s, rec, post, li) ==
  [s EXCEPT !.logs = Append(@, rec),
            !.li = li,
            !.calls = IF post = None THEN @ ELSE Append(@, The(post))]

\* A dispatch that would transform first and merge the context afterwards.
FinalEventSwapped(ev, c, t) ==
  LET e1 == IF t = "returns" THEN TransformLog(ev) ELSE ev
  IN  IF c = "returns" THEN Enrich(e1) ELSE e1

\* The event logEvent hands on, given how the hooks ran: the context merge
\* first, transformLog on its result.
FinalEvent(ev, c, t) ==
  LET e1 == IF c = "returns" THEN Enrich(ev) ELSE ev
  IN  IF t = "returns" THEN TransformLog(e1) ELSE e1

\* logEvent(event) up to its first await, in state s: the states it can lead
\* to.  The dispatch gets the next index of logs.
logEvent(s, ev, src, by, awaited) ==
  LET sl == shouldLog(ev.url, s.li)
      idx == Len(s.logs) + 1
      Out(outcome, result, cc, tc, fin, level, post, onErr) ==
        Recorded(s, LogRec(ev, src, by, awaited, outcome, result, cc, tc, fin, level,
                           IF post = None THEN 0 ELSE Len(s.calls) + 1, onErr),
                 post, sl.li)
  IN
  IF ~sl.ok
    THEN {Out("dropped", "resolved", FALSE, FALSE, None, "-", None, 0)}
  ELSE UNION {
    IF c = "throws"
      THEN {Out("ctxThrew", "rejected", TRUE, FALSE, None, "-", None, 0)}
    ELSE UNION {
      LET cc == c = "returns"
      IN
      IF t = "throws"
        THEN {Out("tlThrew", "rejected", cc, TRUE, None, "-", None, 0)}
      ELSE
        LET fin == FinalEvent(ev, c, t)
            tc == t = "returns"
            level == IF fin.event = "request_error" THEN "error" ELSE "info"
        IN
        IF isServer /\ loggerKind # "client"
          THEN {Out("emitted", "resolved", cc, tc, Some(fin), level, None, 0),
                Out("emitThrew", "rejected", cc, tc, Some(fin), level, None, 0)}
        ELSE IF isServer
          \* part_002, logger is the client-side one: its level method builds
          \* a manual event and calls sendToServerAPI, which returns at once
          \* because isServer() holds
          THEN {Out("clientLogger", "resolved", cc, tc, Some(fin), level, None, 0)}
          ELSE {Out(x.outcome, x.result, cc, tc, Some(fin), "-", x.post, x.onErr)
                  : x \in sendToServerAPI(fin, idx)}
      : t \in HookRuns("transformLog")}
    : c \in HookRuns("contextProvider")}


\* ------------------------------------------------------------------ setup

\* A setup without the one-shot flag in its guard.
setupInterceptorsUnguarded ==
  IF ~window
    THEN [setup |-> interceptorsSetup, wraps |-> fetchWraps, uses |-> axiosUses]
    ELSE [setup |-> TRUE,
          wraps |-> IF hasFetch THEN fetchWraps + 1 ELSE fetchWraps,
          uses |-> IF hasAxios THEN axiosUses + 1 ELSE axiosUses]

\* A setup that would not look for the browser global.
setupInterceptorsAnywhere ==
  IF interceptorsSetup /\ window
    THEN [setup |-> interceptorsSetup, wraps |-> fetchWraps, uses |-> axiosUses]
    ELSE [setup |-> TRUE, wraps |-> fetchWraps + 1, uses |-> axiosUses]

\* setupInterceptors(): [setup, wraps, uses] afterwards.  setupFetchInterceptor
\* wraps window.fetch when there is one; setupAxiosInterceptor registers the
\* interceptor pair when window.axios exists.
setupInterceptors ==
  IF interceptorsSetup \/ ~window
    THEN [setup |-> interceptorsSetup, wraps |-> fetchWraps, uses |-> axiosUses]
    ELSE [setup |-> TRUE,
          wraps |-> IF hasFetch THEN fetchWraps + 1 ELSE fetchWraps,
          uses |-> IF hasAxios THEN axiosUses + 1 ELSE axiosUses]

\* A createLogger that would take the instrumentation out again when the
\* config turns the automatic setup off.
createLoggerUndoing(arg) ==
  LET cfg == IF arg = None THEN globalConfig ELSE Spread(globalConfig, The(arg))
      st == IF isClient /\ cfg.autoSetupInterceptors
              THEN setupInterceptors
              ELSE [setup |-> FALSE, wraps |-> 0, uses |-> 0]
  IN  /\ globalConfig' = cfg
      /\ interceptorsSetup' = st.setup
      /\ fetchWraps' = st.wraps
      /\ axiosUses' = st.uses

\* A createLogger that would merge what it is given over the defaults.
createLoggerFresh(arg) ==
  LET cfg == IF arg = None THEN DefaultConfig ELSE Spread(DefaultConfig, The(arg))
      st == IF isClient /\ cfg.autoSetupInterceptors
              THEN setupInterceptors
              ELSE [setup |-> interceptorsSetup, wraps |-> fetchWraps, uses |-> axiosUses]
  IN  /\ globalConfig' = cfg
      /\ interceptorsSetup' = st.setup
      /\ fetchWraps' = st.wraps
      /\ axiosUses' = st.uses

\* createLogger(config?): merge, then the one-time setup on the client.  arg is
\* None for a call without argument.
createLogger(arg) ==
  LET cfg == IF arg = None THEN globalConfig ELSE Spread(globalConfig, The(arg))
      st == IF isClient /\ cfg.autoSetupInterceptors
              THEN setupInterceptors
              ELSE [setup |-> interceptorsSetup, wraps |-> fetchWraps, uses |-> axiosUses]
  IN  /\ globalConfig' = cfg
      /\ interceptorsSetup' = st.setup
      /\ fetchWraps' = st.wraps
      /\ axiosUses' = st.uses

\* ------------------------------------------------------------------ the fetch wrapper

\* A wrapper that would make a new id for every event it builds.
requestIdFresh(s, c) == GenId(s.nextId + 1)

\* const requestId of the wrapper invocation c, as the code after the awaits
\* reads it.
requestId(s, c) == s.calls[c].reqId

\* A wrapper that would attach what init has whatever the configuration is.
startEventAlways(ev, init) ==
  LET e1 == IF init.headers # None THEN WithField(ev, "headers", The(init.headers)) ELSE ev
  IN  IF init.body # None THEN WithField(e1, "body", The(init.body).value) ELSE e1

\* startEvent after the two `if (globalConfig.include... && init?....)`: the
\* headers as they are; the body parsed when it is a JSON text, as it is
\* otherwise.
startEventWith(ev, init) ==
  LET e1 == IF globalConfig.includeHeaders /\ init.headers # None
              THEN WithField(ev, "headers", The(init.headers)) ELSE ev
  IN  IF globalConfig.includeBody /\ init.body # None
        THEN WithField(e1, "body", The(init.body).value) ELSE e1

\* The wrapper from its entry to `await logEvent(startEvent)`.
FetchBegin(s, c) ==
  LET id == GenId(s.nextId + 1)
      startEvent == startEventWith(Event("request_start", id, s.calls[c].url, "fetch", None),
                                   s.calls[c].init)
      s1 == [s EXCEPT !.nextId = @ + 1,
                      !.calls[c].reqId = id,
                      !.calls[c].startTime = perfNow,
                      !.calls[c].pc = "awaitStartLog",
                      !.calls[c].log = Len(s.logs) + 1]
  IN  logEvent(s1, startEvent, "fetch", c, TRUE)

\* After `await logEvent(startEvent)`: a rejection leaves the wrapper (the
\* await is outside the try block); otherwise originalFetch(input, init) is
\* called, which is the native fetch or the wrapper below this one.
FetchAfterStart(s, c) ==
  IF s.logs[s.calls[c].log].result = "rejected"
    THEN {[s EXCEPT !.calls[c].pc = "done", !.calls[c].result = "logError"]}
  ELSE IF s.calls[c].layer = 1
    THEN {[s EXCEPT !.calls[c].pc = "net", !.calls[c].orig = "pending"]}
  ELSE {[s EXCEPT !.calls =
           Append([@ EXCEPT ![c].pc = "awaitInner", ![c].orig = "pending",
                            ![c].inner = Len(s.calls) + 1],
                  [NewCall(s.calls[c].url, 0, c, s.calls[c].layer - 1, s.calls[c].body)
                     EXCEPT !.init = s.calls[c].init])]}

\* What the wrapper below this one answered, as the outcome of originalFetch.
InnerOutcome(s, c) ==
  LET i == s.calls[s.calls[c].inner]
  IN  IF i.result = "response" THEN i.orig ELSE "rejected"

\* After `await originalFetch(input, init)`: the success event in the try
\* block, or the error event in the catch block, up to `await logEvent(...)`.
FetchTerminal(s, c) ==
  LET out == IF s.calls[c].pc = "origSettled" THEN s.calls[c].orig ELSE InnerOutcome(s, c)
      type == IF out = "rejected" THEN "request_error" ELSE "request_success"
      duration == MathRound(perfNow - s.calls[c].startTime)
      ev == Timed(Event(type, requestId(s, c), s.calls[c].url, "fetch", None), duration)
      s1 == [s EXCEPT !.calls[c].orig = out,
                      !.calls[c].pc = IF out = "rejected" THEN "awaitErrLog" ELSE "awaitSuccLog",
                      !.calls[c].caught = IF out = "rejected" THEN "orig" ELSE "none",
                      !.calls[c].log = Len(s.logs) + 1]
  IN  logEvent(s1, ev, "fetch", c, TRUE)

\* After `await logEvent(successEvent)`: return response; a rejection is
\* caught by the catch block of the same try, which builds an error event.
FetchAfterSuccess(s, c) ==
  IF s.logs[s.calls[c].log].result = "resolved"
    THEN {[s EXCEPT !.calls[c].pc = "done", !.calls[c].result = "response"]}
    ELSE LET duration == MathRound(perfNow - s.calls[c].startTime)
             ev == Timed(Event("request_error", requestId(s, c), s.calls[c].url, "fetch",
                               None),
                         duration)
             s1 == [s EXCEPT !.calls[c].pc = "awaitErrLog",
                             !.calls[c].caught = "log",
                             !.calls[c].log = Len(s.logs) + 1]
         IN  logEvent(s1, ev, "fetch", c, TRUE)

\* After `await logEvent(errorEvent)`: throw error, the caught one; a
\* rejection of the await leaves the catch block instead.
FetchAfterError(s, c) ==
  {[s EXCEPT
     !.calls[c].pc = "done",
     !.calls[c].result =
        IF s.logs[s.calls[c].log].result = "resolved" /\ s.calls[c].caught = "orig"
          THEN "origError" ELSE "logError"]}

\* sendToServerAPI after `await fetch(...)`: part_002 throws on a response
\* that is not ok; whatever is thrown goes to the catch block.
SendSettled(s, l) ==
  LET p == s.calls[s.logs[l].post]
      failed == \/ p.result # "response"
                \/ variant = "part_002" /\ p.orig = "notok"
  IN  IF failed
        THEN {[s EXCEPT !.logs[l].result = k.result, !.logs[l].onError = @ + k.onErr]
                : k \in CatchOutcomes}
        ELSE {[s EXCEPT !.logs[l].result = "resolved"]}

\* ------------------------------------------------------------------ scheduling

ReadyCall(s, c) ==
  \/ s.calls[c].pc \in {"init", "origSettled"}
  \/ /\ s.calls[c].pc \in {"awaitStartLog", "awaitSuccLog", "awaitErrLog"}
     /\ s.logs[s.calls[c].log].result # "pending"
  \/ s.calls[c].pc = "awaitInner" /\ s.calls[s.calls[c].inner].pc = "done"

ReadyLog(s, l) ==
  /\ s.logs[l].result = "pending"
  /\ s.logs[l].post # 0
  /\ s.calls[s.logs[l].post].pc = "done"

ReadyCalls(s) == {c \in DOMAIN s.calls : ReadyCall(s, c)}
ReadyLogs(s) == {l \in DOMAIN s.logs : ReadyLog(s, l)}

\* No continuation is runnable.
Quiet(s) == ReadyCalls(s) = {} /\ ReadyLogs(s) = {}

\* One continuation runs: the states it can lead to.
Continue(s) ==
  IF ReadyCalls(s) # {}
    THEN LET c == CHOOSE x \in ReadyCalls(s) : \A y \in ReadyCalls(s) : x <= y
             pc == s.calls[c].pc
         IN  CASE pc = "init" -> FetchBegin(s, c)
               [] pc = "awaitStartLog" -> FetchAfterStart(s, c)
               [] pc \in {"origSettled", "awaitInner"} -> FetchTerminal(s, c)
               [] pc = "awaitSuccLog" -> FetchAfterSuccess(s, c)
               [] pc = "awaitErrLog" -> FetchAfterError(s, c)
    ELSE LET l == CHOOSE x \in ReadyLogs(s) : \A y \in ReadyLogs(s) : x <= y
         IN  SendSettled(s, l)

\* Run to completion: continuations run until none is runnable.
RECURSIVE Run(_)
Run(S) ==
  IF \A s \in S : Quiet(s) THEN S
  ELSE Run(UNION {IF Quiet(s) THEN {s} ELSE Continue(s) : s \in S})

\* The variables take the values of s.
Commit(s) ==
  /\ calls' = s.calls
  /\ logs' = s.logs
  /\ axios' = s.axios
  /\ nextId' = s.nextId
  /\ reLastIndex' = s.li
  /\ records' = s.records

\* ------------------------------------------------------------------ axios

\* What axios holds for a request: config.headers and config.data, and
\* response.headers and response.data.
AxiosHeaders == [authorization |-> "secret"]
AxiosData == [password |-> "p"]
AxiosResponseHeaders == [setCookie |-> "c"]
AxiosResponseData == [account |-> "a"]

\* An event with a field only when the flag holds: a key whose value is
\* undefined is no part of what is emitted or POSTed.
Gated(ev, flag, key, value) == IF flag THEN WithField(ev, key, value) ELSE ev

\* startEvent of the request interceptor.
axiosStartEvent(ev) ==
  Gated(Gated(ev, globalConfig.includeHeaders, "headers", AxiosHeaders),
        globalConfig.includeBody, "body", AxiosData)

\* successEvent and errorEvent of the response interceptors: only the
\* former has responseHeaders and responseBody.
axiosTerminalEvent(ev) ==
  IF ev.event = "request_success"
    THEN Gated(Gated(ev, globalConfig.includeHeaders, "responseHeaders", AxiosResponseHeaders),
               globalConfig.includeBody, "responseBody", AxiosResponseData)
    ELSE ev

\* The interceptor registered with axios.interceptors.request.use, once per
\* registration: config.metadata is (re)written and the start event is
\* dispatched without waiting for it.
RECURSIVE AxiosRequestInterceptor(_, _, _)
AxiosRequestInterceptor(S, a, k) ==
  IF k = 0 THEN S
  ELSE AxiosRequestInterceptor(
         UNION {
           LET id == GenId(s.nextId + 1)
               s1 == [s EXCEPT !.nextId = @ + 1, !.axios[a].reqId = id,
                               !.axios[a].startTime = perfNow]
           IN  logEvent(s1, axiosStartEvent(Event("request_start", id, s.axios[a].url,
                                                   "axios", None)),
                        "axios", a, FALSE)
           : s \in S},
         a, k - 1)

\* The interceptors registered with axios.interceptors.response.use, once per
\* registration.  a = 0 stands for an error that carries no config.metadata:
\* its startTime is Date.now(), in milliseconds since the epoch.
metadataStartTime(s, a) ==
  IF a = 0 THEN 1000 * TimeOrigin + perfNow - (perfNow % 1000) ELSE s.axios[a].startTime

RECURSIVE AxiosResponseInterceptor(_, _, _, _, _, _)
AxiosResponseInterceptor(S, a, type, id, url, k) ==
  IF k = 0 THEN S
  ELSE AxiosResponseInterceptor(
         UNION {logEvent(s, axiosTerminalEvent(
                              Timed(Event(type, id, url, "axios", None),
                                    MathRound(perfNow - metadataStartTime(s, a)))),
                         "axios", a, FALSE) : s \in S},
         a, type, id, url, k - 1)

\* ------------------------------------------------------------------ initial state

Init ==
  /\ variant \in {"index", "part_002"}
  /\ window \in BOOLEAN
  /\ hasFetch \in BOOLEAN
  /\ hasAxios \in BOOLEAN
  /\ window = FALSE => hasFetch = FALSE /\ hasAxios = FALSE
  /\ loaded = FALSE
  /\ loadWindow = FALSE
  /\ timerPending = FALSE
  /\ globalConfig = DefaultConfig
  /\ interceptorsSetup = FALSE
  /\ fetchWraps = 0
  /\ axiosUses = 0
  /\ reLastIndex = 0
  /\ nextId = 0
  /\ calls = <<>>
  /\ logs = <<>>
  /\ axios = <<>>
  /\ records = <<>>
  /\ nodeEnv = None
  /\ logModule = None
  /\ emitters = <<>>
  /\ ret = None
  /\ perfNow = 0
  /\ measures = <<>>
  /\ rateLimitStore = [ip \in {} |-> 0]
  /\ dateNow = 0
  /\ apiOut = None
  /\ admitted = [k \in {} |-> 0]
  /\ pinoThrows = FALSE
  /\ warnings = 0
  /\ nOps = 0
  /\ nConfigs = 0

\* ------------------------------------------------------------------ actions

\* The module's top level: universalLogger = createLogger(), then the timer
\* is set when there is a window.
ModuleLoad ==
  /\ ~loaded
  /\ loaded' = TRUE
  /\ loadWindow' = window
  /\ createLogger(None)
  /\ timerPending' = window
  \* logger = createSimpleLogger() in a try block, on the server only
  /\ warnings' = IF ~window /\ pinoThrows THEN warnings + 1 ELSE warnings
  /\ UNCHANGED <<pinoThrows, envVars, apiVars, utilVars, taskVars, nOps, nConfigs>>

\* setTimeout(() => setupInterceptors(), 0) fires.
Timer ==
  /\ timerPending
  /\ timerPending' = FALSE
  /\ interceptorsSetup' = setupInterceptors.setup
  /\ fetchWraps' = setupInterceptors.wraps
  /\ axiosUses' = setupInterceptors.uses
  /\ Commit(Retire(Cur))
  /\ UNCHANGED <<sinkVars, envVars, apiVars, utilVars, loaded, loadWindow, globalConfig, nOps, nConfigs>>

\* The application calls createLogger.
CreateLogger(arg) ==
  /\ loaded
  /\ nConfigs < MaxConfigs
  /\ nConfigs' = nConfigs + 1
  /\ createLogger(arg)
  /\ Commit(Retire(Cur))
  /\ UNCHANGED <<sinkVars, envVars, apiVars, utilVars, loaded, loadWindow, timerPending, nOps>>

\* The object createLogger returns, but for pino: log is the function
\* logEvent of the module, whatever the call was given.
Handle ==
  [log |-> "logEvent", isClient |-> isClient, isServer |-> isServer,
   environment |-> IF isClient THEN "client" ELSE "server"]

\* The application calls createLogger once more: every module of an
\* application may call it.  ret keeps what the call was given, what it
\* returned and globalConfig as it found it.
CreateLoggerAgain(arg) ==
  /\ loaded
  /\ nConfigs < MaxSetups
  /\ nConfigs' = nConfigs + 1
  /\ createLogger(arg)
  /\ ret' = Some([op |-> "createLogger", arg |-> arg, result |-> Handle,
                  found |-> globalConfig])
  /\ Commit(Retire(Cur))
  /\ UNCHANGED <<sinkVars, envVars, apiVars, nodeEnv, logModule, emitters, perfNow, measures,
                 loaded, loadWindow, timerPending, nOps>>

\* The application calls window.fetch(u).
AppFetch(u) ==
  /\ loaded /\ window /\ hasFetch
  /\ nOps < MaxRequests
  /\ nOps' = nOps + 1
  /\ LET s0 == Retire(Cur)
         s1 == [s0 EXCEPT !.calls = Append(@, NewCall(u, 0, 0, fetchWraps, None))]
     IN  \E s \in Run({s1}) : Commit(s)
  /\ UNCHANGED <<sinkVars, envVars, apiVars, utilVars, setupVars, globalConfig, nConfigs>>

\* The application calls window.fetch(u, init).
AppFetchInit(u, init) ==
  /\ loaded /\ window /\ hasFetch
  /\ nOps < MaxRequests
  /\ nOps' = nOps + 1
  /\ LET s0 == Retire(Cur)
         s1 == [s0 EXCEPT !.calls = Append(@, [NewCall(u, 0, 0, fetchWraps, None)
                                                 EXCEPT !.init = init])]
     IN  \E s \in Run({s1}) : Commit(s)
  /\ UNCHANGED <<sinkVars, envVars, apiVars, utilVars, setupVars, globalConfig, nConfigs>>

\* The network answers a fetch: a response (ok or not) or a failure.  Whether
\* a response is ok matters for the POST of an event only.
NetSettle(c, out) ==
  /\ c \in DOMAIN calls
  /\ calls[c].pc = "net"
  /\ out = "notok" => calls[c].body # None
  /\ LET s0 == Retire(Cur)
         s1 == IF calls[c].layer = 0
                 THEN [s0 EXCEPT !.calls[c].orig = out,
                                 !.calls[c].pc = "done",
                                 !.calls[c].result =
                                    IF out = "rejected" THEN "origError" ELSE "response"]
                 ELSE [s0 EXCEPT !.calls[c].orig = out, !.calls[c].pc = "origSettled"]
     IN  \E s \in Run({s1}) : Commit(s)
  /\ UNCHANGED <<sinkVars, envVars, apiVars, utilVars, setupVars, globalConfig, nOps, nConfigs>>

\* The events an application hands to handle.log.
AppEvents ==
  { <<"request_start", UrlData, None>>,
    <<"request_start", UrlData, Some([user |-> "e"])>>,
    <<"request_success", UrlData, Some([page |-> "e"])>>,
    <<"request_error", UrlData, None>>,
    <<"request_success", UrlHealth, None>>,
    <<"request_start", UrlViaLogs, None>> }

\* The application calls handle.log(event), which is logEvent.
AppLog(type, u, ctx) ==
  /\ loaded
  /\ nOps < MaxOps
  /\ nOps' = nOps + 1
  /\ \E s \in Run(logEvent(Retire(Cur), Event(type, AppEventId, u, "test", ctx),
                           "app", 0, FALSE)) : Commit(s)
  /\ UNCHANGED <<sinkVars, envVars, apiVars, utilVars, setupVars, globalConfig, nConfigs>>

\* The application makes a request with axios.
AxiosRequest(u) ==
  /\ loaded /\ window /\ axiosUses >= 1
  /\ nOps < MaxRequests
  /\ nOps' = nOps + 1
  /\ LET s0 == Retire(Cur)
         a == Len(axios) + 1
         s1 == [s0 EXCEPT !.axios = Append(@, [url |-> u, reqId |-> NoId, pc |-> "sent",
                                                   startTime |-> 0])]
     IN  \E s \in Run(AxiosRequestInterceptor({s1}, a, axiosUses)) : Commit(s)
  /\ UNCHANGED <<sinkVars, envVars, apiVars, utilVars, setupVars, globalConfig, nConfigs>>

\* An axios request settles: the response interceptor for that outcome.
AxiosSettle(a, type) ==
  /\ a \in DOMAIN axios
  /\ axios[a].pc = "sent"
  /\ LET s0 == Retire(Cur)
         s1 == [s0 EXCEPT !.axios[a].pc = "done"]
     IN  \E s \in Run(AxiosResponseInterceptor({s1}, a, type, axios[a].reqId,
                                               axios[a].url, axiosUses)) : Commit(s)
  /\ UNCHANGED <<sinkVars, envVars, apiVars, utilVars, setupVars, globalConfig, nOps, nConfigs>>

\* An axios error without config.metadata reaches the error interceptor:
\* error.config is missing (url 'unknown'), or it is there without metadata.
AxiosErrorNoMetadata(u) ==
  /\ loaded /\ window /\ axiosUses >= 1
  /\ nOps < MaxRequests
  /\ nOps' = nOps + 1
  /\ \E s \in Run(AxiosResponseInterceptor({Retire(Cur)}, 0, "request_error", UnknownId,
                                           u, axiosUses)) : Commit(s)
  /\ UNCHANGED <<sinkVars, envVars, apiVars, utilVars, setupVars, globalConfig, nConfigs>>

\* The clock of the page does not go beyond MaxElapsed (thousandths of a
\* millisecond); the gaps between two tasks round down, and up.
MaxElapsed == 2000
Gaps == {499, 1500}

\* Time passes between two tasks of the page.
Elapse(d) ==
  /\ loaded /\ window
  /\ perfNow + d <= MaxElapsed
  /\ perfNow' = perfNow + d
  /\ UNCHANGED <<sinkVars, envVars, apiVars, setupVars, taskVars, nodeEnv, logModule, emitters, ret,
                 measures, globalConfig, nOps, nConfigs>>

\* part_002: a level method of the client-side logger builds a manual event
\* and hands it to sendToServerAPI, without waiting for it: the states it can
\* lead to from s.
createClientLogMethod(s, level) ==
  LET ev == Event("request_success", GenId(s.nextId + 1), UrlData, "manual", None)
      s1 == [s EXCEPT !.nextId = @ + 1]
      idx == Len(s.logs) + 1
  IN  {Recorded(s1,
                LogRec(ev, "manual", 0, FALSE, x.outcome, x.result, FALSE, FALSE,
                       Some(ev), level,
                       IF x.post = None THEN 0 ELSE Len(s.calls) + 1, x.onErr),
                x.post, s1.li) : x \in sendToServerAPI(ev, idx)}

\* part_002: the application calls a level method of the client-side logger
\* (logger.info(...) in the browser).
ClientLogMethod(level) ==
  /\ variant = "part_002"
  /\ loaded /\ loadWindow
  /\ nOps < MaxOps
  /\ nOps' = nOps + 1
  /\ \E s \in Run(createClientLogMethod(Retire(Cur), level)) : Commit(s)
  /\ UNCHANGED <<sinkVars, envVars, apiVars, utilVars, setupVars, globalConfig, nConfigs>>

\* ------------------------------------------------------------------ emitters

\* Module names, and what process.env.LOG_MODULE may hold.
ModB == <<"b">>
ModC == <<"c">>
LogModuleValues == {None, Some(<<"a", ",", " ", "b">>), Some(<<"c">>), Some(<<>>)}

\* What process.env.NODE_ENV may hold.
NodeEnvValues == {None, Some("development"), Some("production")}

\* const isDev = process.env.NODE_ENV === "development", evaluated at the top
\* level; NODE_ENV is set before the module is evaluated.
isDev == nodeEnv = Some("development")

\* String.prototype.split(sep) for a one-character separator.
RECURSIVE Split(_, _)
Split(str, sep) ==
  IF \A i \in DOMAIN str : str[i] # sep THEN <<str>>
  ELSE LET i == CHOOSE j \in DOMAIN str : str[j] = sep /\ \A k \in 1..(j - 1) : str[k] # sep
       IN  <<SubSeq(str, 1, i - 1)>> \o Split(SubSeq(str, i + 1, Len(str)), sep)

\* String.prototype.trim
RECURSIVE Trim(_)
Trim(str) ==
  IF str = <<>> THEN str
  ELSE IF Head(str) = " " THEN Trim(Tail(str))
  ELSE IF str[Len(str)] = " " THEN Trim(SubSeq(str, 1, Len(str) - 1))
  ELSE str

\* String.prototype.replace(pattern, "") for a string pattern: the first
\* occurrence is removed.
Remove(str, pat) ==
  LET at == {i \in 0..(Len(str) - Len(pat)) : SubSeq(str, i + 1, i + Len(pat)) = pat}
  IN  IF at = {} \/ pat = <<>> THEN str
      ELSE LET i == CHOOSE j \in at : \A k \in at : j <= k
           IN  SubSeq(str, 1, i) \o SubSeq(str, i + Len(pat) + 1, Len(str))

\* A filter with the allow-list as it was when the module was evaluated:
\* LOG_MODULE was unset then.
shouldLogModuleAtLoad(module) == TRUE

\* A filter that would let a module through only when LOG_MODULE is unset.
shouldLogModuleUnsetOnly(module) == logModule = None

\* shouldLogModule(module): LOG_MODULE is read, split at the commas and the
\* entries are trimmed; unset, every module is allowed.
shouldLogModule(module) ==
  IF logModule = None THEN TRUE
  ELSE LET parts == Split(The(logModule), ",")
       IN  \E i \in DOMAIN parts : Trim(parts[i]) = module

\* An emitter object.  kind is pino (the structured sink or a child of it),
\* silent (createSilentLogger), client (the client-side logger); madeBy is
\* the call that made it, of the emitter `of` (0 is the variable logger),
\* module the module createChildLogger was given.
Emitter(kind, bindings, madeBy, of) ==
  [kind |-> kind, bindings |-> bindings, madeBy |-> madeBy, of |-> of, module |-> None]

EmitterIds == {0} \cup DOMAIN emitters
EmitterKind(e) == IF e = 0 THEN loggerKind ELSE emitters[e].kind
Bindings(e) == IF e = 0 THEN <<>> ELSE emitters[e].bindings

\* process.cwd(), and the contexts createChildLogger is called with.
Cwd == <<"w">>
Contexts ==
  {[module |-> ModB], [module |-> ModB, environment |-> "custom"],
   [module |-> ModC, filePath |-> <<"w", "/", "f">>]}

\* const base of createChildLogger.
ChildBase(context) ==
  LET filePath == IF Has(context, "filePath") /\ context.filePath # <<>>
                    THEN [filePath |-> Remove(context.filePath, Cwd \o <<"/">>)] ELSE <<>>
      environment == IF ~isDev
                       THEN [environment |-> IF nodeEnv = None THEN "production"
                                             ELSE The(nodeEnv)]
                       ELSE <<>>
  IN  Spread(Spread(context, filePath), environment)

\* A child operation that scopes the structured sink whatever it is called on.
childOfSink(e, obj) ==
  [result |-> Len(emitters) + 1,
   made |-> Some(Emitter("pino", Spread(Bindings(e), obj), "child", e)),
   warned |-> 0]

\* getLogger() of part_002: the kind of logger it makes for the context of
\* the moment, and whether it warns: on the server createSimpleLogger() is
\* called again, and when it throws the catch block warns and makes a new
\* console fallback.
getLogger ==
  IF window THEN [kind |-> "client", warned |-> 0]
  ELSE IF pinoThrows THEN [kind |-> "console", warned |-> 1]
  ELSE [kind |-> "pino", warned |-> 0]

\* e.child(obj): [result, made, warned].  A pino emitter makes a child with
\* obj added to its bindings; a silent one has createSilentLogger as its
\* child; the client-side logger and the console fallback of index.ts
\* return logger, those of part_002 call getLogger().
child(e, obj) ==
  LET new == Len(emitters) + 1
      kind == EmitterKind(e)
  IN  IF kind = "pino"
        THEN [result |-> new,
              made |-> Some(Emitter("pino", Spread(Bindings(e), obj), "child", e)),
              warned |-> 0]
      ELSE IF kind = "silent"
        THEN [result |-> new, made |-> Some(Emitter("silent", <<>>, "child", e)),
              warned |-> 0]
      ELSE IF variant = "index"
        THEN [result |-> 0, made |-> None, warned |-> 0]
      ELSE [result |-> new, made |-> Some(Emitter(getLogger.kind, <<>>, "child", e)),
            warned |-> getLogger.warned]

\* createChildLogger(context): [result, made], the emitter returned and, if
\* it is a new object, what it is.
createChildLogger(context) ==
  LET new == Len(emitters) + 1
  IN  IF isClient
        THEN [result |-> 0, made |-> None, warned |-> 0]
      ELSE IF isDev /\ ~shouldLogModule(context.module)
        THEN [result |-> new,
              made |-> Some([Emitter("silent", <<>>, "createChildLogger", 0)
                               EXCEPT !.module = Some(context.module)]),
              warned |-> 0]
      ELSE LET r == child(0, ChildBase(context))
           IN  [result |-> r.result,
                made |-> IF r.made = None THEN None
                         ELSE Some([The(r.made) EXCEPT !.madeBy = "createChildLogger",
                                                       !.module = Some(context.module)]),
                warned |-> r.warned]

\* The level the structured sink is made with, LOG_LEVEL being unset, and
\* whether a call at `level` gets past it.
pinoLevel == IF isDev THEN "debug" ELSE "info"
LevelEnabled(level) == level # "debug" \/ pinoLevel = "debug"

\* A level method of emitter e is called with (obj, msg) in state s: the
\* states it can lead to.
Emit(s, e, level, obj, msg) ==
  LET kind == EmitterKind(e)
      rec(sink) == [sink |-> sink, emitter |-> e, level |-> level, bindings |-> Bindings(e),
                    obj |-> obj, msg |-> msg]
  IN  IF kind = "pino"
        THEN IF LevelEnabled(level) THEN {[s EXCEPT !.records = Append(@, rec("pino"))]}
             ELSE {s}
      ELSE IF kind = "silent" THEN {s}
      \* the console fallback: console.log(msg || obj) and the like
      ELSE IF kind = "console" THEN {[s EXCEPT !.records = Append(@, rec("console"))]}
      ELSE IF variant = "index"
        THEN IF isDev THEN {[s EXCEPT !.records = Append(@, rec("console"))]} ELSE {s}
      ELSE createClientLogMethod(s, level)

\* NODE_ENV is set in the environment the process starts with.
SetNodeEnv(v) ==
  /\ ~loaded
  /\ nodeEnv # v
  /\ nodeEnv' = v
  /\ UNCHANGED <<sinkVars, envVars, apiVars, setupVars, taskVars, logModule, emitters, ret, perfNow, measures,
                 globalConfig, nOps, nConfigs>>

\* The process starts with a configuration with which pino(...) throws.
SinkBreaks ==
  /\ ~loaded /\ ~pinoThrows
  /\ pinoThrows' = TRUE
  /\ UNCHANGED <<warnings, envVars, apiVars, setupVars, taskVars, utilVars, globalConfig, nOps,
                 nConfigs>>

\* LOG_MODULE is set, changed or deleted while the process runs.
SetLogModule(v) ==
  /\ loaded
  /\ logModule # v
  /\ logModule' = v
  /\ ret' = None
  /\ Commit(Retire(Cur))
  /\ UNCHANGED <<sinkVars, envVars, apiVars, setupVars, nodeEnv, emitters, perfNow, measures,
                 globalConfig, nOps, nConfigs>>

\* What a call that returns an emitter leaves behind.
Returned(op, on, arg, r) ==
  Some([op |-> op, on |-> on, arg |-> arg, logModule |-> logModule, result |-> r.result,
        fresh |-> r.made # None])

\* The application calls createChildLogger(context).
CreateChildLogger(context) ==
  /\ loaded
  /\ Len(emitters) < MaxEmitters
  /\ LET r == createChildLogger(context)
     IN  /\ emitters' = IF r.made = None THEN emitters ELSE Append(emitters, The(r.made))
         /\ ret' = Returned("createChildLogger", 0, Some(context), r)
         /\ warnings' = warnings + r.warned
  /\ Commit(Retire(Cur))
  /\ UNCHANGED <<pinoThrows, envVars, apiVars, setupVars, nodeEnv, logModule, perfNow, measures,
                 globalConfig, nOps, nConfigs>>

\* The application calls e.child({requestId}) on an emitter it holds.
Child(e) ==
  /\ loaded
  /\ e \in EmitterIds
  /\ Len(emitters) < MaxEmitters
  /\ LET r == child(e, [requestId |-> "r"])
     IN  /\ emitters' = IF r.made = None THEN emitters ELSE Append(emitters, The(r.made))
         /\ ret' = Returned("child", e, None, r)
         /\ warnings' = warnings + r.warned
  /\ Commit(Retire(Cur))
  /\ UNCHANGED <<pinoThrows, envVars, apiVars, setupVars, nodeEnv, logModule, perfNow, measures,
                 globalConfig, nOps, nConfigs>>

Levels == {"info", "error"}

\* The application calls a level method of an emitter it holds.
EmitterCall(e, level) ==
  /\ loaded
  /\ e \in EmitterIds
  /\ nOps < MaxOps
  /\ nOps' = nOps + 1
  /\ \E s \in Run(Emit(Retire(Cur), e, level, [note |-> "n"], "msg")) : Commit(s)
  /\ ret' = Some([op |-> level, on |-> e, arg |-> None, logModule |-> logModule,
                  result |-> e, fresh |-> FALSE])
  /\ UNCHANGED <<sinkVars, envVars, apiVars, setupVars, nodeEnv, logModule, emitters, perfNow, measures,
                 globalConfig, nConfigs>>

\* ------------------------------------------------------------------ durations

\* How long fn may take, in thousandths of a millisecond; performance.now()
\* never goes back.
Delays == {0, 4, 15}

\* +(ms).toFixed(2): the duration rounded to hundredths of a millisecond.
toFixed2(d) == (d + 5) \div 10

\* What fn does: it returns (or resolves to) a value, or throws (or rejects
\* with) an error.
FnOutcomes == {[how |-> "returns", what |-> "value"], [how |-> "throws", what |-> "boom"]}

\* How a call of fn goes before measure gets control back: it has an outcome
\* at once, or (None) it returns a promise that settles later.
FnRuns == {None} \cup {Some(o) : o \in FnOutcomes}

\* A completion record at one level for both functions.
completionLevelDebug(quiet) == "debug"

\* log.info in measureDuration, log.debug in measureDurationQuiet.
completionLevel(quiet) == IF quiet THEN "debug" ELSE "info"

\* An invocation of measureDuration (quiet = FALSE) or measureDurationQuiet.
\*   start    performance.now() when it was called
\*   fn       what fn did, once it has
\*   settled  how the promise of the invocation settled, and with what
\*   logged   the calls it made to level methods of log, in order
\*   wrote    the records those calls wrote
Measure(quiet, log, label) ==
  [quiet |-> quiet, log |-> log, label |-> label, start |-> perfNow, pc |-> "awaiting",
   fn |-> None, settled |-> None, logged |-> <<>>, wrote |-> <<>>]

\* A call of a level method.
LevelCall(level, obj, msg) == [level |-> level, obj |-> obj, msg |-> msg]

\* A catch block that only rethrows.
measureCatchRethrowOnly(m, err, durationMs) == <<>>

\* The catch block: log.error({err, durationMs, label}, `${label} failed`).
measureCatch(m, err, durationMs) ==
  <<LevelCall("error", [err |-> err, durationMs |-> durationMs, label |-> m.label],
              <<m.label, " failed">>)>>

\* A return value without the duration.
returnedResultOnly(m, result, durationMs) == [result |-> result, durationMs |-> None]

\* What the invocation resolves to: result for measureDuration,
\* {result, durationMs} for measureDurationQuiet.
returned(m, result, durationMs) ==
  [result |-> result, durationMs |-> IF m.quiet THEN Some(durationMs) ELSE None]

\* After the await: the completion record.
measureTry(m, durationMs) ==
  <<LevelCall(completionLevel(m.quiet), [durationMs |-> durationMs, label |-> m.label],
              <<m.label, " completed">>)>>

\* The level methods of emitter e are called in state s, one after the
\* other: the states that can lead to.
RECURSIVE EmitAll(_, _, _)
EmitAll(s, e, cs) ==
  IF cs = <<>> THEN {s}
  ELSE UNION {EmitAll(t, e, Tail(cs)) : t \in Emit(s, e, cs[1].level, cs[1].obj, cs[1].msg)}

\* The rest of an invocation once fn has settled at time now: the states it
\* can lead to, each with the invocation as it ends.  measureDuration
\* returns result, measureDurationQuiet {result, durationMs}.
measureRest(s, m, out, now) ==
  LET durationMs == toFixed2(now - m.start)
      value == returned(m, out.what, durationMs)
      thrown == [result |-> out.what, durationMs |-> None]
      cs == IF out.how = "returns" THEN measureTry(m, durationMs)
            ELSE measureCatch(m, out.what, durationMs)
      end == [m EXCEPT !.pc = "done", !.fn = Some(out), !.logged = cs,
                       !.settled = IF out.how = "returns"
                                     THEN Some([how |-> "resolved", what |-> value])
                                     ELSE Some([how |-> "rejected", what |-> thrown])]
  IN  {[s |-> t,
        m |-> [end EXCEPT !.wrote = SubSeq(t.records, Len(s.records) + 1, Len(t.records))]]
         : t \in EmitAll(s, m.log, cs)}

\* Invocations that have ended keep what identifies them.
RetireMeasures ==
  [i \in DOMAIN measures |->
    IF measures[i].pc = "awaiting" THEN measures[i]
    ELSE [measures[i] EXCEPT !.pc = "retired", !.fn = None, !.settled = None,
                             !.logged = <<>>, !.wrote = <<>>, !.start = 0]]

Labels == {"job"}

\* The application calls measureDuration(label, fn, log) or
\* measureDurationQuiet(label, fn, log).  fn returns a promise that is still
\* pending (out = None), or it is synchronous: after d it returns a value or
\* throws, and the rest of the invocation runs before the next task.
MeasureBegin(quiet, e, label, out, d) ==
  /\ loaded
  /\ e \in EmitterIds
  /\ nOps < MaxOps
  /\ nOps' = nOps + 1
  /\ LET m == Measure(quiet, e, label)
     IN  IF out # None
           THEN /\ perfNow' = perfNow + d
                /\ \E x \in measureRest(Retire(Cur), m, The(out), perfNow + d) :
                     /\ measures' = Append(RetireMeasures, x.m)
                     /\ \E t \in Run({x.s}) : Commit(t)
           ELSE /\ d = 0
                /\ perfNow' = perfNow
                /\ measures' = Append(RetireMeasures, m)
                /\ Commit(Retire(Cur))
  /\ ret' = None
  /\ UNCHANGED <<sinkVars, envVars, apiVars, setupVars, nodeEnv, logModule, emitters, globalConfig, nConfigs>>

\* The promise fn returned settles d after the previous step and the
\* invocation awaiting it resumes.
FnSettle(i, out, d) ==
  /\ i \in DOMAIN measures
  /\ measures[i].pc = "awaiting"
  /\ perfNow' = perfNow + d
  /\ \E x \in measureRest(Retire(Cur), measures[i], out, perfNow + d) :
       /\ measures' = [RetireMeasures EXCEPT ![i] = x.m]
       /\ \E t \in Run({x.s}) : Commit(t)
  /\ ret' = None
  /\ UNCHANGED <<sinkVars, envVars, apiVars, setupVars, nodeEnv, logModule, emitters, globalConfig, nOps,
                 nConfigs>>

\* ------------------------------------------------------------------ ingestion endpoint

\* checkRateLimit: the default of limit, and windowMs.
RateLimit == 100
WindowMs == 60000

\* The headers a request may carry.  x-forwarded-for is a comma-separated
\* list; remoteAddress is req.connection.remoteAddress of a Pages request.
Loopback == <<"127.0.0.1">>
HeaderSets ==
  {[xff |-> Some(<<"7", ",", " ", "8">>), realIp |-> Some(<<"9">>), remote |-> Some(<<"6">>),
    userAgent |-> Some("ua"), referer |-> None],
   [xff |-> None, realIp |-> None, remote |-> None, userAgent |-> None,
    referer |-> Some("ref")]}

\* The valid envelope of a request that succeeded.
SuccessBody == Some([event |-> "request_success", requestId |-> "r", url |-> "/d"])

\* The bodies a request may carry: None is a body that is absent or is not
\* JSON; a key that is absent is undefined.
Bodies ==
  {None,
   Some([event |-> "request_error", requestId |-> "r", url |-> "/d", error |-> "timeout"]),
   SuccessBody,
   Some([event |-> "request_start", requestId |-> "r", url |-> "/d",
         environment |-> "server", clientIP |-> <<"s">>]),
   Some([event |-> "request_error", url |-> "/d"]),
   Some([event |-> "", requestId |-> "r", url |-> "/d"])}

\* A test that only asks whether the key is there.
FalsyAbsentOnly(logData, k) == ~Has(logData, k)

\* !logData[k]
Falsy(logData, k) == ~Has(logData, k) \/ logData[k] = ""

\* A resolution that would ask x-real-ip first.
getClientIPRealFirst(router, h) ==
  IF h.realIp # None /\ The(h.realIp) # <<>> THEN The(h.realIp)
  ELSE LET first == IF h.xff = None THEN <<>> ELSE Split(The(h.xff), ",")[1]
       IN  IF first # <<>> THEN first
           ELSE IF router = "pages" /\ h.remote # None /\ The(h.remote) # <<>>
             THEN The(h.remote)
           ELSE Loopback

\* getClientIP(req); router is "pages" for a NextApiRequest ('connection' in
\* req) and "app" for a NextRequest.
getClientIP(router, h) ==
  LET first == IF h.xff = None THEN <<>> ELSE Split(The(h.xff), ",")[1]
  IN  IF first # <<>> THEN first
      ELSE IF h.realIp # None /\ The(h.realIp) # <<>> THEN The(h.realIp)
      ELSE IF router = "pages" /\ h.remote # None /\ The(h.remote) # <<>> THEN The(h.remote)
      ELSE Loopback

\* A limiter with one counter for all clients.
checkRateLimitShared(store, ip) ==
  IF DOMAIN store = {} THEN
    [ok |-> TRUE, store |-> [k \in {ip} |-> [count |-> 1, resetTime |-> dateNow + WindowMs]]]
  ELSE LET total == CHOOSE n \in 0..(RateLimit + 1) : \A k \in DOMAIN store : store[k].count = n
       IN  [ok |-> total < RateLimit,
            store |-> [k \in DOMAIN store \cup {ip} |->
                        [count |-> IF total < RateLimit THEN total + 1 ELSE total,
                         resetTime |-> dateNow + WindowMs]]]

\* A limiter that counts the requests it refuses as well.
checkRateLimitCounting(store, ip) ==
  IF ip \notin DOMAIN store \/ dateNow > store[ip].resetTime
    THEN [ok |-> TRUE,
          store |-> [k \in DOMAIN store \cup {ip} |->
                      IF k = ip THEN [count |-> 1, resetTime |-> dateNow + WindowMs]
                      ELSE store[k]]]
  ELSE [ok |-> store[ip].count < RateLimit, store |-> [store EXCEPT ![ip].count = @ + 1]]

\* A limiter whose windows never run out.
checkRateLimitForever(store, ip) ==
  IF ip \notin DOMAIN store
    THEN [ok |-> TRUE,
          store |-> [k \in DOMAIN store \cup {ip} |->
                      IF k = ip THEN [count |-> 1, resetTime |-> dateNow + WindowMs]
                      ELSE store[k]]]
  ELSE IF store[ip].count >= RateLimit
    THEN [ok |-> FALSE, store |-> store]
  ELSE [ok |-> TRUE, store |-> [store EXCEPT ![ip].count = @ + 1]]

\* checkRateLimit(ip) with rateLimitStore being store: [ok, store], the
\* answer and rateLimitStore after it.
checkRateLimit(store, ip) ==
  LET Set(rec) == IF ip \in DOMAIN store THEN [store EXCEPT ![ip] = rec]
                  ELSE [k \in DOMAIN store \cup {ip} |-> IF k = ip THEN rec ELSE store[k]]
  IN  IF ip \notin DOMAIN store \/ dateNow > store[ip].resetTime
        THEN [ok |-> TRUE, store |-> Set([count |-> 1, resetTime |-> dateNow + WindowMs])]
      ELSE IF store[ip].count >= RateLimit
        THEN [ok |-> FALSE, store |-> store]
      ELSE [ok |-> TRUE, store |-> Set([store[ip] EXCEPT !.count = @ + 1])]

\* A severity that does not look at the event.
severityInfo(logData) == "info"

\* const level = logData.event === 'request_error' ? 'error' : 'info'
severity(logData) == IF logData.event = "request_error" THEN "error" ELSE "info"

\* An enrichment in which the keys of the envelope would win.
enrichedLogUnder(logData, clientIP, h) ==
  Spread([serverTimestamp |-> dateNow, clientIP |-> clientIP, userAgent |-> h.userAgent,
          referer |-> h.referer, environment |-> "client"],
         logData)

\* const enrichedLog
enrichedLog(logData, clientIP, h) ==
  Spread(logData,
         [serverTimestamp |-> dateNow, clientIP |-> clientIP, userAgent |-> h.userAgent,
          referer |-> h.referer, environment |-> "client"])

\* formatters.log of createLogger: the sink passes the object of every call
\* of a level method through it before it writes the record.
formattersLog(obj) == Spread(obj, [timestamp |-> dateNow, environment |-> "server"])

\* The record logger writes for a call of a level method.
Written(call) == [call EXCEPT !.obj = formattersLog(@)]

\* What a handler leaves.
\*   status   the status of the response, 0 when no response was made
\*   logged   the calls of level methods of logger that returned, in order
\*   threw    how many calls of level methods threw
\*   escaped  an exception left the handler
\*   passed   checkRateLimit was called and answered true
Response(status, body, logged, store, threw, escaped, passed) ==
  [status |-> status, body |-> body, logged |-> logged, store |-> store, threw |-> threw,
   escaped |-> escaped, passed |-> passed]

\* How a call of a level method of logger may go.
LoggerRuns == {"returns", "throws"}

\* The catch block: logger.error({error, stack, clientIP}, 'Failed to process
\* client log'), then the 500 response.  logged and threw are those of the
\* try block.
Catch(message, clientIP, logged, store, threw) ==
  {IF run = "returns"
     THEN Response(500, "Internal server error",
                   Append(logged, LevelCall("error",
                                            [error |-> message, stack |-> "stack",
                                             clientIP |-> clientIP],
                                            "Failed to process client log")),
                   store, threw, FALSE, TRUE)
     ELSE Response(0, "", logged, store, threw + 1, TRUE, TRUE)
   : run \in LoggerRuns}

\* Handlers that would look at the body before they ask the limiter.
IngestValidatingFirst(store, router, h, body) ==
  LET clientIP == getClientIP(router, h)
      rl == checkRateLimit(store, clientIP)
  IN  IF body # None /\ (Falsy(The(body), "event") \/ Falsy(The(body), "requestId")
                            \/ Falsy(The(body), "url"))
        THEN {Response(400, "Invalid log data structure", <<>>, store, 0, FALSE, FALSE)}
      ELSE IF ~rl.ok
        THEN {Response(429, "Rate limit exceeded", <<>>, rl.store, 0, FALSE, FALSE)}
      ELSE IF body = None
        THEN Catch("body", clientIP, <<>>, rl.store, 0)
      ELSE UNION {
             IF run = "returns"
               THEN {Response(200, "success",
                              <<LevelCall(severity(The(body)),
                                          enrichedLog(The(body), clientIP, h), None)>>,
                              rl.store, 0, FALSE, TRUE)}
               ELSE Catch("logger", clientIP, <<>>, rl.store, 1)
             : run \in LoggerRuns}

\* From the rate limit on, the same in handler and in POST: the responses
\* possible with rateLimitStore being store.
Ingest(store, router, h, body) ==
  LET clientIP == getClientIP(router, h)
      rl == checkRateLimit(store, clientIP)
  IN  IF ~rl.ok
        THEN {Response(429, "Rate limit exceeded", <<>>, rl.store, 0, FALSE, FALSE)}
      ELSE IF body = None
        \* req.body is undefined, or req.json() rejects
        THEN Catch("body", clientIP, <<>>, rl.store, 0)
      ELSE LET logData == The(body)
           IN  IF Falsy(logData, "event") \/ Falsy(logData, "requestId")
                    \/ Falsy(logData, "url")
                 THEN {Response(400, "Invalid log data structure", <<>>, rl.store, 0, FALSE,
                                TRUE)}
                 ELSE UNION {
                   IF run = "returns"
                     THEN {Response(200, "success",
                                    <<LevelCall(severity(logData),
                                                enrichedLog(logData, clientIP, h), None)>>,
                                    rl.store, 0, FALSE, TRUE)}
                     ELSE Catch("logger", clientIP, <<>>, rl.store, 1)
                   : run \in LoggerRuns}

\* A handler that does not look at the method.
handlerAnyMethod(store, method, h, body) == Ingest(store, "pages", h, body)

\* export default async function handler(req, res): the Pages Router.
handler(store, method, h, body) ==
  IF method = "OPTIONS" THEN {Response(200, "", <<>>, store, 0, FALSE, FALSE)}
  ELSE IF method # "POST"
    THEN {Response(405, "Method not allowed", <<>>, store, 0, FALSE, FALSE)}
  ELSE Ingest(store, "pages", h, body)

\* export async function POST(req): the App Router.
POST(store, h, body) == Ingest(store, "app", h, body)

\* export async function OPTIONS(req)
OPTIONS(store, h) == {Response(200, "", <<>>, store, 0, FALSE, FALSE)}

\* The responses one request can get.
Serve(store, router, method, h, body) ==
  IF router = "pages" THEN handler(store, method, h, body)
  ELSE IF method = "POST" THEN POST(store, h, body)
  ELSE OPTIONS(store, h)

\* admitted with one more request of client ip at the present time.
Admit(adm, ip) ==
  LET k == <<ip, dateNow>>
  IN  IF k \in DOMAIN adm THEN [adm EXCEPT ![k] = @ + 1]
      ELSE [x \in DOMAIN adm \cup {k} |-> IF x = k THEN 1 ELSE adm[x]]

\* What the request leaves as apiOut; before is rateLimitStore as the request
\* found it.
Answered(router, method, h, body, r, before) ==
  Some([router |-> router, method |-> method, headers |-> h, body |-> body,
        status |-> r.status, error |-> r.body, logged |-> r.logged, threw |-> r.threw,
        escaped |-> r.escaped, before |-> before])

\* A request reaches one of the exported handlers and is answered.  Requests
\* are taken one after the other, from at most MaxClients addresses.
ApiRequest(router, method, h, body) ==
  /\ apiOut = None
  /\ nOps < MaxApiOps
  /\ nOps' = nOps + 1
  /\ \/ router = "pages"
     \/ router = "app" /\ method \in {"POST", "OPTIONS"}
  /\ Cardinality(DOMAIN rateLimitStore \cup {getClientIP(router, h)}) <= MaxClients
  /\ \E r \in Serve(rateLimitStore, router, method, h, body) :
       /\ rateLimitStore' = r.store
       /\ admitted' = IF r.passed THEN Admit(admitted, getClientIP(router, h)) ELSE admitted
       /\ apiOut' = Answered(router, method, h, body, r, rateLimitStore)
  /\ UNCHANGED <<sinkVars, envVars, setupVars, taskVars, utilVars, dateNow, globalConfig, nConfigs>>

\* n POST requests of one client, served one after the other with nothing
\* between them and the logger working: [store, admitted, last, before], the
\* last being the response to the last of them and before rateLimitStore as
\* that request found it.
RECURSIVE ServeAll(_, _, _, _, _)
ServeAll(st, router, h, body, n) ==
  IF n = 0 THEN st
  ELSE IF n = 1
    THEN LET r == CHOOSE x \in Serve(st.store, router, "POST", h, body) : x.threw = 0
         IN  [store |-> r.store,
              admitted |-> IF r.passed THEN Admit(st.admitted, getClientIP(router, h))
                           ELSE st.admitted,
              last |-> r, before |-> st.store]
  ELSE CHOOSE y \in {ServeAll(x, router, h, body, n - (n \div 2)) :
                      x \in {ServeAll(st, router, h, body, n \div 2)}} : TRUE

\* A client sends RateLimit - 1 requests in a row.
ApiBurst(router, h, body) ==
  /\ apiOut = None
  /\ nOps < MaxApiOps
  /\ nOps' = nOps + 1
  /\ Cardinality(DOMAIN rateLimitStore \cup {getClientIP(router, h)}) <= MaxClients
  /\ LET st == ServeAll([store |-> rateLimitStore, admitted |-> admitted, last |-> <<>>,
                         before |-> rateLimitStore],
                        router, h, body, RateLimit - 1)
     IN  /\ rateLimitStore' = st.store
         /\ admitted' = st.admitted
         /\ apiOut' = Answered(router, "POST", h, body, st.last, st.before)
  /\ UNCHANGED <<sinkVars, envVars, setupVars, taskVars, utilVars, dateNow, globalConfig, nConfigs>>

\* A client sends RateLimit requests in a row.
ApiFlood(router, h, body) ==
  /\ apiOut = None
  /\ nOps < MaxApiOps
  /\ nOps' = nOps + 1
  /\ Cardinality(DOMAIN rateLimitStore \cup {getClientIP(router, h)}) <= MaxClients
  /\ LET st == ServeAll([store |-> rateLimitStore, admitted |-> admitted, last |-> <<>>,
                         before |-> rateLimitStore],
                        router, h, body, RateLimit)
     IN  /\ rateLimitStore' = st.store
         /\ admitted' = st.admitted
         /\ apiOut' = Answered(router, "POST", h, body, st.last, st.before)
  /\ UNCHANGED <<sinkVars, envVars, setupVars, taskVars, utilVars, dateNow, globalConfig, nConfigs>>

\* The response has gone out; the next request can be taken.
ApiDone ==
  /\ apiOut # None
  /\ apiOut' = None
  /\ UNCHANGED <<sinkVars, envVars, setupVars, taskVars, utilVars, rateLimitStore, dateNow, admitted,
                 globalConfig, nOps, nConfigs>>

\* The times at which requests arrive: the start, a full window later, and a
\* millisecond after each.
Times == {k * WindowMs + j : k \in 0..MaxTicks, j \in {0, 1}}

\* Time passes between two requests.
Tick(t) ==
  /\ apiOut = None
  /\ t \in Times /\ t > dateNow
  /\ dateNow' = t
  /\ UNCHANGED <<sinkVars, envVars, setupVars, taskVars, utilVars, rateLimitStore, apiOut, admitted,
                 globalConfig, nOps, nConfigs>>

\* The browser global appears (hydration, a test that defines global.window)
\* or goes away.  A global that appears is a new one: it has a fetch of its
\* own, which nobody has wrapped yet.
ContextChange ==
  /\ loaded
  /\ window' = ~window
  /\ hasFetch' = ~window
  /\ hasAxios' = FALSE
  /\ fetchWraps' = 0
  /\ axiosUses' = 0
  /\ Commit(Retire(Cur))
  /\ UNCHANGED <<sinkVars, variant, loaded, loadWindow, timerPending, interceptorsSetup, apiVars,
                 utilVars, globalConfig, nOps, nConfigs>>

\* ------------------------------------------------------------------ specifications

\* What createLogger may be called with.
ConfigArgs == {None} \cup {Some(p) : p \in Partials}

\* What both specifications have: loading, the timer, configuration, the
\* network.
Common ==
  \/ ModuleLoad
  \/ Timer
  \/ \E arg \in ConfigArgs : CreateLogger(arg)
  \/ \E c \in DOMAIN calls, out \in {"ok", "notok", "rejected"} : NetSettle(c, out)

\* Intercepted traffic: fetch and axios.
NextFetch ==
  \/ Common
  \/ \E u \in AppFetchUrls : AppFetch(u)
  \/ AxiosRequest(UrlData)
  \/ \E a \in DOMAIN axios, type \in {"request_success", "request_error"} : AxiosSettle(a, type)
  \/ \E u \in {UrlData, UrlUnknown} : AxiosErrorNoMetadata(u)

\* Events dispatched by the application itself.
NextDispatch ==
  \/ Common
  \/ \E e \in AppEvents : AppLog(e[1], e[2], e[3])
  \/ \E level \in {"info", "error"} : ClientLogMethod(level)

\* Dispatch in a process whose context changes.
NextContext ==
  \/ ModuleLoad
  \/ Timer
  \/ ContextChange
  \/ \E e \in AppEvents : AppLog(e[1], e[2], e[3])
  \/ \E c \in DOMAIN calls, out \in {"ok", "notok", "rejected"} : NetSettle(c, out)

\* Intercepted traffic on a page whose clock advances.
NextTiming ==
  \/ ModuleLoad
  \/ Timer
  \/ \E c \in DOMAIN calls, out \in {"ok", "notok", "rejected"} : NetSettle(c, out)
  \/ \E u \in AppFetchUrls : AppFetch(u)
  \/ AxiosRequest(UrlData)
  \/ \E a \in DOMAIN axios, type \in {"request_success", "request_error"} : AxiosSettle(a, type)
  \/ \E u \in {UrlData, UrlUnknown} : AxiosErrorNoMetadata(u)
  \/ \E d \in Gaps : Elapse(d)

\* The emitters of a server process in which the structured sink cannot be
\* constructed.
NextFallback ==
  \/ SinkBreaks
  \/ ModuleLoad
  \/ \E v \in NodeEnvValues : SetNodeEnv(v)
  \/ \E v \in LogModuleValues : SetLogModule(v)
  \/ \E c \in Contexts : CreateChildLogger(c)
  \/ \E e \in 0..MaxEmitters : Child(e)
  \/ \E e \in 0..MaxEmitters, level \in Levels : EmitterCall(e, level)

\* Intercepted traffic under a configuration that may turn the capture of
\* headers and bodies on.
NextInclude ==
  \/ ModuleLoad
  \/ Timer
  \/ \E arg \in IncludeArgs : CreateLogger(arg)
  \/ \E c \in DOMAIN calls, out \in {"ok", "notok", "rejected"} : NetSettle(c, out)
  \/ \E init \in Inits : AppFetchInit(UrlData, init)
  \/ AxiosRequest(UrlData)
  \/ \E a \in DOMAIN axios, type \in {"request_success", "request_error"} : AxiosSettle(a, type)

SpecFetch == Init /\ [][NextFetch]_vars
SpecInclude == Init /\ [][NextInclude]_vars
SpecTiming == Init /\ [][NextTiming]_vars
SpecDispatch == Init /\ [][NextDispatch]_vars
SpecContext == Init /\ [][NextContext]_vars

\* The emitters: createChildLogger, child and the level methods.
NextEmitters ==
  \/ ModuleLoad
  \/ \E v \in NodeEnvValues : SetNodeEnv(v)
  \/ \E v \in LogModuleValues : SetLogModule(v)
  \/ \E c \in Contexts : CreateChildLogger(c)
  \/ \E e \in 0..MaxEmitters : Child(e)
  \/ \E e \in 0..MaxEmitters, level \in Levels : EmitterCall(e, level)
  \/ \E c \in DOMAIN calls, out \in {"ok", "notok", "rejected"} : NetSettle(c, out)

\* The timing helpers: measureDuration and measureDurationQuiet.
NextMeasure ==
  \/ ModuleLoad
  \/ \E v \in NodeEnvValues : SetNodeEnv(v)
  \/ \E c \in Contexts : CreateChildLogger(c)
  \/ \E q \in BOOLEAN, e \in 0..MaxEmitters, l \in Labels, d \in Delays,
        out \in FnRuns :
       MeasureBegin(q, e, l, out, d)
  \/ \E i \in 1..MaxOps, out \in FnOutcomes, d \in Delays : FnSettle(i, out, d)
  \/ \E c \in DOMAIN calls, out \in {"ok", "notok", "rejected"} : NetSettle(c, out)

\* The ingestion endpoint: api.ts runs in a server process of its own.
InitApi == Init /\ variant = "index" /\ ~window

NextApi ==
  \/ \E router \in {"pages", "app"}, method \in {"POST", "GET", "OPTIONS"},
        h \in HeaderSets, body \in Bodies :
       ApiRequest(router, method, h, body)
  \/ ApiDone
  \/ \E router \in {"pages", "app"}, h \in HeaderSets :
       ApiBurst(router, h, SuccessBody)
  \/ \E t \in Times : Tick(t)

\* The two places where the severity of a request event is decided: the
\* dispatch of index.ts in a server process, and the handlers of api.ts.  The
\* two modules share no state; a behaviour follows one of them.
InitServer == Init /\ ~window

\* The emitters of a server process, the sink failing or not.
SpecFallback == InitServer /\ [][NextFallback]_vars

ApiIdle == DOMAIN rateLimitStore = {} /\ apiOut = None /\ dateNow = 0

NextSeverity ==
  \/ ApiIdle /\ ModuleLoad
  \/ ApiIdle /\ \E arg \in ConfigArgs : CreateLogger(arg)
  \/ ApiIdle /\ \E e \in AppEvents : AppLog(e[1], e[2], e[3])
  \/ ~loaded /\ NextApi

SpecEmitters == Init /\ [][NextEmitters]_vars
SpecMeasure == Init /\ [][NextMeasure]_vars
SpecApi == InitApi /\ [][NextApi]_vars

\* The headers the first request of a process may carry: x-forwarded-for
\* absent, empty, a list, or a list whose first entry is empty; x-real-ip
\* absent, empty or given; a connection with or without a remote address.
AddressHeaders ==
  {[xff |-> xff, realIp |-> realIp, remote |-> remote, userAgent |-> ua, referer |-> None] :
     xff \in {None, Some(<<>>), Some(<<"7", ",", " ", "8">>), Some(<<",", "8">>)},
     realIp \in {None, Some(<<>>), Some(<<"9">>)},
     remote \in {None, Some(<<"6">>)},
     ua \in {None, Some("ua")}}

\* The first request of a process, a valid POST, with any of these headers.
ApiFirstRequest(router, h) ==
  /\ nOps = 0
  /\ ApiRequest(router, "POST", h, SuccessBody)

NextAddress ==
  \/ \E router \in {"pages", "app"}, h \in AddressHeaders : ApiFirstRequest(router, h)
  \/ ApiDone

SpecAddress == InitApi /\ [][NextAddress]_vars
SpecSeverity == InitServer /\ [][NextSeverity]_vars

\* The envelopes the handlers refuse.
InvalidBodies ==
  {b \in Bodies \ {None} :
     Falsy(The(b), "event") \/ Falsy(The(b), "requestId") \/ Falsy(The(b), "url")}

\* The ingestion endpoint under clients that send single POSTs of any kind
\* and floods of invalid envelopes.
NextQuota ==
  \/ \E router \in {"pages", "app"}, h \in HeaderSets, body \in Bodies :
       ApiRequest(router, "POST", h, body)
  \/ \E router \in {"pages", "app"}, h \in HeaderSets, body \in InvalidBodies :
       ApiFlood(router, h, body)
  \/ ApiDone
  \/ \E t \in Times : Tick(t)

SpecQuota == InitApi /\ [][NextQuota]_vars

\* An application whose modules configure the library, in a process where
\* the browser global may come and go.
NextSetup ==
  \/ ModuleLoad
  \/ Timer
  \/ ContextChange
  \/ \E arg \in ConfigArgs : CreateLoggerAgain(arg)

SpecSetup == Init /\ [][NextSetup]_vars

\* What the modules of the application studied under SpecConfig pass to
\* createLogger.
SetupArgs ==
  {None, Some([enabled |-> FALSE]), Some([clientLogEndpoint |-> EndpointB]),
   Some([excludeUrls |-> <<StrHealth>>])}

\* An application whose modules configure the library and log through the
\* handles they got, while the interceptors see its traffic.
NextConfig ==
  \/ ModuleLoad
  \/ Timer
  \/ \E arg \in SetupArgs : CreateLoggerAgain(arg)
  \/ \E u \in AppFetchUrls : AppLog("request_start", u, None)
  \/ \E u \in AppFetchUrls : AppFetch(u)
  \/ \E c \in DOMAIN calls : NetSettle(c, "ok")

\* A server process, or a page that has fetch and no axios.
InitConfig == Init /\ (window => hasFetch /\ ~hasAxios)

SpecConfig == InitConfig /\ [][NextConfig]_vars

\* ------------------------------------------------------------------ properties

IsTerminal(ev) == ev.event \in {"request_success", "request_error"}

\* The invocations of the wrapper, and those that have returned or thrown in
\* the step that led to this state.
Wrappers == {c \in DOMAIN calls : calls[c].layer >= 1}
Finished == {c \in Wrappers : calls[c].pc = "done"}

\* The events the wrapper invocation c has built and handed to logEvent.
StartsOf(c) ==
  {l \in DOMAIN logs : logs[l].src = "fetch" /\ logs[l].by = c
                       /\ logs[l].ev.event = "request_start"}
TerminalsOf(c) ==
  {l \in DOMAIN logs : logs[l].src = "fetch" /\ logs[l].by = c /\ IsTerminal(logs[l].ev)}

\* C1: a call of the wrapped fetch builds exactly one request_start before
\* the original fetch is invoked and, once the original has settled, exactly
\* one terminal event: request_success if it resolved, request_error if it
\* rejected, never both and never neither.
C1_OneStartOneTerminal ==
  \A c \in Wrappers :
    /\ calls[c].orig \notin {"none", "-"} => Cardinality(StartsOf(c)) = 1
    /\ calls[c].orig \in {"none", "pending"} => TerminalsOf(c) = {}
    /\ c \in Finished =>
         /\ Cardinality(StartsOf(c)) = 1
         /\ calls[c].orig \in {"ok", "notok", "rejected"}
         /\ \E l \in TerminalsOf(c) :
              /\ TerminalsOf(c) = {l}
              /\ logs[l].ev.event =
                   IF calls[c].orig = "rejected" THEN "request_error" ELSE "request_success"

\* C2: a call of the wrapped fetch invokes the original exactly once and
\* settles as the original did, with its response or with its error, whatever
\* the hooks and the transmission of the events do.
C2_SettlesAsOriginal ==
  \A c \in Finished :
    /\ calls[c].orig \in {"ok", "notok", "rejected"}
    /\ calls[c].orig \in {"ok", "notok"} => calls[c].result = "response"
    /\ calls[c].orig = "rejected" => calls[c].result = "origError"

\* C3: the promise handle.log(event) returns is never rejected (log is an
\* async function, so a throw inside it is a rejection), whichever of
\* contextProvider, transformLog, the emitter, the transport or onError fails.
C3_LogNeverRejects ==
  \A l \in DOMAIN logs : logs[l].src = "app" => logs[l].result # "rejected"

\* Terminal event l of an instrumented call carries the requestId of a
\* request_start event built earlier for the same call.
CarriesStartId(l) ==
  \E k \in 1..(l - 1) :
    /\ logs[k].src = logs[l].src
    /\ logs[k].by = logs[l].by
    /\ logs[k].ev.event = "request_start"
    /\ logs[k].ev.requestId = logs[l].ev.requestId

Instrumented == {l \in DOMAIN logs : logs[l].src \in {"fetch", "axios"}}

\* C4, as stated: every terminal event built by the fetch wrapper or by the
\* axios interceptors carries the requestId of a request_start built earlier
\* for the same call.
C4_EveryTerminalCarriesStartId ==
  \A l \in Instrumented : IsTerminal(logs[l].ev) => CarriesStartId(l)

\* C4, amended: that holds for the fetch wrapper and for the axios events
\* whose request passed the request interceptor (config.metadata is there),
\* and all events of one call share one id; an axios error that arrives without
\* config.metadata gets the requestId 'unknown', which no request_start has.
C4_TerminalCarriesStartIdOrUnknown ==
  /\ \A l \in Instrumented :
       IsTerminal(logs[l].ev) =>
         IF logs[l].by # 0
           THEN CarriesStartId(l)
           ELSE /\ logs[l].ev.requestId = UnknownId
                /\ \A k \in DOMAIN logs : logs[k].ev.event = "request_start"
                                            => logs[k].ev.requestId # UnknownId
  /\ \A l, k \in Instrumented :
       logs[l].src = logs[k].src /\ logs[l].by = logs[k].by /\ logs[l].by # 0
         => logs[l].ev.requestId = logs[k].ev.requestId

\* C4's case: an application fetch has finished with its terminal event built
\* while the POST of another event, with a wrapper invocation and an id of its
\* own, went through the same wrapper.
C4_Witness ==
  \E l \in Instrumented :
    /\ logs[l].src = "fetch"
    /\ IsTerminal(logs[l].ev)
    /\ calls[logs[l].by].parent = 0
    /\ \E k \in Instrumented : logs[k].src = "fetch" /\ calls[logs[k].by].parent # 0

\* C5: the wrapper issues the underlying call without waiting for the
\* transmission of the start event: no invocation is parked on the dispatch
\* of its request_start, with the POST in flight, before it has invoked the
\* original.
C5_StartNotAwaited ==
  \A c \in Wrappers :
    calls[c].pc = "awaitStartLog" /\ logs[calls[c].log].result = "pending"
      => calls[c].orig # "none"

\* The application's call that the fetch invocation c belongs to: c itself,
\* or the outermost wrapper invocation that reached c through originalFetch.
RECURSIVE LogicalCall(_)
LogicalCall(c) == IF calls[c].outer = 0 THEN c ELSE LogicalCall(calls[c].outer)

\* The calls the application made itself.
AppCalls == {c \in DOMAIN calls : calls[c].parent = 0 /\ calls[c].outer = 0}

\* C6: in a browser, whatever the order of the module-load createLogger(),
\* the timer and later createLogger calls, window.fetch is wrapped exactly
\* once and the axios interceptors are registered at most once, so that one
\* call of fetch by the application yields one request_start event.
C6_WrappedOnce ==
  /\ fetchWraps <= 1
  /\ axiosUses <= 1
  /\ loaded /\ window /\ hasFetch => fetchWraps = 1
  /\ \A c \in AppCalls :
       Cardinality({l \in DOMAIN logs :
                      /\ logs[l].src = "fetch"
                      /\ logs[l].ev.event = "request_start"
                      /\ LogicalCall(logs[l].by) = c}) = 1

\* C6's case: the module-load createLogger(), the timer and a later
\* createLogger call with auto-setup enabled have all run, and the application
\* has called fetch.
C6_Witness ==
  /\ window /\ hasFetch /\ hasAxios
  /\ loaded /\ ~timerPending /\ nConfigs >= 1
  /\ globalConfig.autoSetupInterceptors
  /\ interceptorsSetup
  /\ AppCalls # {}

\* What caused the fetch invocation p: the application's fetch or axios
\* request whose event, or whose event's POST's event, it transmits.
RECURSIVE Origin(_)
Origin(p) ==
  IF calls[p].parent # 0
    THEN LET l == logs[calls[p].parent]
         IN  IF l.src = "fetch" THEN Origin(l.by) ELSE <<l.src, l.by>>
  ELSE IF calls[p].outer # 0 THEN Origin(calls[p].outer)
  ELSE <<"fetch", p>>

\* The POSTs to the ingestion endpoint.
Posts == {p \in DOMAIN calls : calls[p].parent # 0}

\* C7: the POST of an event, which goes through the wrapped fetch, never
\* causes a further event to be transmitted or emitted, and one fetch by the
\* application leads to at most two POSTs.
C7_NoFeedback ==
  /\ \A l \in DOMAIN logs :
       logs[l].src = "fetch" /\ logs[l].by \in Posts
         => logs[l].outcome \in {"dropped", "retired"} /\ logs[l].post = 0
  /\ \A c \in AppCalls :
       Cardinality({p \in Posts : Origin(p) = <<"fetch", c>>}) <= 2

\* The url of dispatch l contains the ingestion endpoint, contains a string
\* entry of excludeUrls or matches a RegExp entry of it (a RegExp of the model
\* matches the urls that contain its source).
Excluded(l) ==
  \/ Includes(logs[l].ev.url, logs[l].endpoint)
  \/ \E i \in DOMAIN logs[l].excludeUrls :
       Includes(logs[l].ev.url, logs[l].excludeUrls[i].src)

\* C8: dispatch drops every event with an excluded url: nothing is
\* transmitted or emitted, the hooks are not called, no error is raised.
C8_ExcludedDropped ==
  \A l \in DOMAIN logs :
    logs[l].src # "manual" /\ logs[l].outcome # "retired" /\ Excluded(l)
      => /\ logs[l].outcome = "dropped"
         /\ logs[l].result = "resolved"
         /\ ~logs[l].ctxCalled /\ ~logs[l].tlCalled
         /\ logs[l].post = 0

\* C9: a logging operation invoked while enabled = false emits nothing and
\* POSTs nothing, whichever operation it is.
C9_DisabledSilent ==
  \A l \in DOMAIN logs :
    ~logs[l].enabled => logs[l].outcome \notin {"posted", "emitted"} /\ logs[l].post = 0

\* The context after the merge: the provider's keys with the provider's
\* values, every other key of the event's context as it was.
MergedContext(ev) ==
  LET old == IF ev.context = None THEN <<>> ELSE The(ev.context)
  IN  [k \in (DOMAIN old) \cup (DOMAIN ProviderOutput) |->
         IF k \in DOMAIN ProviderOutput THEN ProviderOutput[k] ELSE old[k]]

\* C10: for an event that is not dropped, the provider's output is merged
\* into event.context first (provider keys win, the others stay), transformLog
\* is applied to the result, and what is emitted or transmitted is what
\* transformLog returned.
C10_MergeThenTransform ==
  \A l \in DOMAIN logs :
    /\ logs[l].src # "manual"
    /\ logs[l].outcome \in {"emitted", "emitThrew", "posted", "notSent", "noFetch"}
    => LET ev == logs[l].ev
           merged == IF logs[l].ctxCalled
                       THEN [ev EXCEPT !.context = Some(MergedContext(ev))] ELSE ev
           out == IF logs[l].tlCalled THEN TransformLog(merged) ELSE merged
       IN  /\ logs[l].final = Some(out)
           /\ logs[l].ctxCalled => Has(globalConfig, "contextProvider")
           /\ logs[l].tlCalled => Has(globalConfig, "transformLog")
           /\ logs[l].post # 0 => calls[logs[l].post].body = Some(JSONstringify(out))

\* C10's case: an event that came with a context of its own went through
\* both hooks and was POSTed.
C10_Witness ==
  \E l \in DOMAIN logs :
    /\ logs[l].outcome = "posted"
    /\ logs[l].ctxCalled /\ logs[l].tlCalled
    /\ logs[l].ev.context = Some([page |-> "e"])
    /\ The(logs[l].final).context = Some([page |-> "e", user |-> "t"])

\* C11: createLogger(partial) sets the keys of partial and leaves every
\* other key of the configuration as it was, createLogger() leaves all of
\* them, and no other step touches the configuration, so that it is the one
\* later dispatches run under.
C11_MergeFrame ==
  [][/\ \A arg \in ConfigArgs :
          CreateLogger(arg) =>
            LET partial == IF arg = None THEN <<>> ELSE The(arg)
            IN  /\ DOMAIN globalConfig' = (DOMAIN globalConfig) \cup (DOMAIN partial)
                /\ \A k \in DOMAIN globalConfig' :
                     globalConfig'[k] = IF k \in DOMAIN partial THEN partial[k]
                                        ELSE globalConfig[k]
     /\ nConfigs' = nConfigs => globalConfig' = globalConfig]_vars

\* C11's case: after createLogger({clientLogEndpoint}) the other keys have
\* their defaults and an event of a later fetch has been POSTed to the new
\* endpoint.
C11_Witness ==
  /\ nConfigs = 1
  /\ globalConfig = [DefaultConfig EXCEPT !.clientLogEndpoint = EndpointB]
  /\ \E l \in DOMAIN logs :
       /\ logs[l].outcome = "posted"
       /\ logs[l].endpoint = EndpointB
       /\ calls[logs[l].post].url = EndpointB

\* The dispatches of events that the filter let through.
Passed ==
  {l \in DOMAIN logs : logs[l].src # "manual" /\ logs[l].outcome \notin {"dropped", "retired"}}

\* The POSTs issued for dispatch l.
PostsOf(l) == {p \in DOMAIN calls : calls[p].parent = l}

C13_RoutedByCallContext ==
  \A l \in Passed :
    logs[l].outcome \notin {"ctxThrew", "tlThrew"} =>
      IF logs[l].client
        THEN logs[l].outcome \in {"posted", "noFetch"}
        ELSE logs[l].outcome \in {"emitted", "emitThrew"}

\* The POST of dispatch l has settled as a failure: the transport rejected
\* or, in part_002, answered with a status that is not ok.
PostFailed(l) ==
  /\ logs[l].outcome = "posted"
  /\ logs[l].result \in {"resolved", "rejected"}
  /\ LET p == calls[logs[l].post]
     IN  \/ p.result # "response"
         \/ variant = "part_002" /\ p.orig = "notok"

\* C15: when the client-side POST to clientLogEndpoint fails, the dispatch
\* still resolves, and onError, when configured, has been called exactly once
\* for it; nothing reaches the caller of the dispatch.
C15_PostFailureSwallowed ==
  \A l \in DOMAIN logs :
    PostFailed(l) =>
      /\ logs[l].result = "resolved"
      /\ Has(globalConfig, "onError") => logs[l].onError = 1

\* Emitter e is a no-op: whatever level method is called, nothing is written
\* and nothing is sent.
IsNoOp(e) ==
  \A level \in Levels :
    \A t \in Emit(Cur, e, level, [note |-> "n"], "msg") : t.records = records /\ t.calls = calls

\* Some comma-separated entry of str, trimmed, is module.
Listed(str, module) ==
  \E a \in 1..(Len(str) + 1), b \in 0..Len(str) :
    /\ a <= b + 1
    /\ a = 1 \/ str[a - 1] = ","
    /\ b = Len(str) \/ str[b + 1] = ","
    /\ \A i \in a..b : str[i] # ","
    /\ Trim(SubSeq(str, a, b)) = module

\* The call that has just returned is createChildLogger(context).
JustCreated == ret # None /\ The(ret).op = "createChildLogger"

\* The allow-list is set and does not have the module of the call that has
\* just returned.
FilteredOut ==
  /\ isDev
  /\ The(ret).logModule # None
  /\ ~Listed(The(The(ret).logModule), The(The(ret).arg).module)

JustChildOfSilent ==
  ret # None /\ The(ret).op = "child" /\ EmitterKind(The(ret).on) = "silent"

\* C17 as stated: child() of a no-op emitter returns that emitter itself, and
\* it is a no-op.
C17_ChildIsItself ==
  JustChildOfSilent => The(ret).result = The(ret).on /\ IsNoOp(The(ret).result)

\* C17, as the code has it: child() of a no-op emitter returns a no-op
\* emitter, a new object each time, and every emitter made by child() from a
\* no-op emitter is a no-op: no level method of it writes or sends anything.
C17_SilenceInherited ==
  /\ JustChildOfSilent => The(ret).fresh /\ IsNoOp(The(ret).result)
  /\ \A e \in DOMAIN emitters :
       emitters[e].madeBy = "child" /\ EmitterKind(emitters[e].of) = "silent"
         => emitters[e].kind = "silent" /\ IsNoOp(e)

\* child() was called on a silent emitter and returned.
C17_Witness ==
  /\ JustChildOfSilent
  /\ emitters[The(ret).result].kind = "silent"
  /\ emitters[The(ret).result].of = The(ret).on

\* C18: the allow-list is read from LOG_MODULE at each createChildLogger
\* call (server-side, in development, the emitter returned is a no-op exactly
\* when LOG_MODULE as it is at that call is set and does not list the
\* module), and an emitter that was returned earlier keeps its behaviour
\* through every later step: a silent one stays silent, a functioning one
\* keeps logging.
C18_ReadAtEachCall ==
  [][ /\ \A c \in Contexts :
           CreateChildLogger(c) /\ isServer /\ isDev
             => \A new \in {Len(emitters) + 1} :
                  IsNoOp(new)' <=> (logModule # None /\ ~Listed(The(logModule), c.module))
      /\ loaded =>
           \A e \in EmitterIds : e \in EmitterIds' /\ (IsNoOp(e)' <=> IsNoOp(e)) ]_vars

\* Two calls of createChildLogger for the same module, LOG_MODULE changed
\* between them: the first returned a silent emitter, which is still silent,
\* the second a functioning one.
C18_Witness ==
  /\ JustCreated
  /\ Len(emitters) = 2
  /\ emitters[1].madeBy = "createChildLogger" /\ emitters[2].madeBy = "createChildLogger"
  /\ emitters[1].module = emitters[2].module
  /\ IsNoOp(1) /\ ~IsNoOp(2)
  /\ The(ret).result = 2

\* Invocation i ended in the latest step, fn having done `how`.
JustEnded(i, how) ==
  /\ measures[i].pc = "done"
  /\ The(measures[i].fn).how = how

\* Emitter e writes what its level methods are given.
Writes(e) ==
  \/ EmitterKind(e) = "pino"
  \/ EmitterKind(e) = "client" /\ variant = "index" /\ isDev

\* The records rs are those of the calls cs to emitter e, one for one.
Wrote(rs, e, cs) ==
  /\ Len(rs) = Len(cs)
  /\ \A k \in DOMAIN cs :
       /\ rs[k].emitter = e
       /\ rs[k].level = cs[k].level
       /\ rs[k].obj = cs[k].obj
       /\ rs[k].msg = cs[k].msg

\* C19: when fn succeeds, synchronously or not, measureDuration resolves to
\* fn's result unchanged and logs exactly one record: at info level, with
\* the label, a durationMs that is not negative and the message
\* "<label> completed"; it logs no error record.
C19_SuccessLogsOneInfo ==
  \A i \in DOMAIN measures :
    JustEnded(i, "returns") /\ ~measures[i].quiet =>
      LET m == measures[i]
      IN  /\ m.settled = Some([how |-> "resolved",
                               what |-> [result |-> The(m.fn).what, durationMs |-> None]])
          /\ Len(m.logged) = 1
          /\ m.logged[1].level = "info"
          /\ m.logged[1].obj.label = m.label
          /\ m.logged[1].obj.durationMs \in Nat
          /\ m.logged[1].msg = <<m.label, " completed">>
          /\ Writes(m.log) => Wrote(m.wrote, m.log, m.logged)

\* measureDuration ended after fn took some time and returned; the sink has
\* the completion record with a duration that rounded up.
C19_Witness ==
  \E i \in DOMAIN measures :
    /\ JustEnded(i, "returns") /\ ~measures[i].quiet
    /\ EmitterKind(measures[i].log) = "pino"
    /\ Len(measures[i].wrote) = 1 /\ measures[i].wrote[1].level = "info"
    /\ measures[i].wrote[1].obj.durationMs = 2

\* C20: when fn throws or rejects, measureDuration and measureDurationQuiet
\* each log exactly one record: at error level, with the error, the label
\* and a durationMs; they log no completion record and reject with the error
\* fn raised.
C20_FailureLogsOneError ==
  \A i \in DOMAIN measures :
    JustEnded(i, "throws") =>
      LET m == measures[i]
      IN  /\ m.settled = Some([how |-> "rejected",
                               what |-> [result |-> The(m.fn).what, durationMs |-> None]])
          /\ Len(m.logged) = 1
          /\ m.logged[1].level = "error"
          /\ m.logged[1].obj.err = The(m.fn).what
          /\ m.logged[1].obj.label = m.label
          /\ m.logged[1].obj.durationMs \in Nat
          /\ m.logged[1].msg = <<m.label, " failed">>
          /\ Writes(m.log) => Wrote(m.wrote, m.log, m.logged)

\* measureDurationQuiet ended after the promise fn returned was rejected;
\* the sink has the error record.
C20_Witness ==
  \E i \in DOMAIN measures :
    /\ JustEnded(i, "throws") /\ measures[i].quiet
    /\ EmitterKind(measures[i].log) = "pino"
    /\ Len(measures[i].wrote) = 1 /\ measures[i].wrote[1].level = "error"
    /\ measures[i].wrote[1].obj.err = "boom"
    /\ perfNow > measures[i].start

\* The request that has just been answered was accepted and logged.
Ingested == apiOut # None /\ The(apiOut).status = 200 /\ The(apiOut).method = "POST"

\* C14: a request event is logged at error severity if and only if its event
\* field is "request_error", and at info severity otherwise: by the
\* server-side dispatch, where the event is the one handed to the emitter,
\* and by both handlers of the ingestion endpoint, where it is the body.
C14_SeverityByEvent ==
  /\ \A l \in DOMAIN logs :
       logs[l].outcome \in {"emitted", "emitThrew"} =>
         logs[l].level = IF The(logs[l].final).event = "request_error" THEN "error" ELSE "info"
  /\ Ingested =>
       /\ Len(The(apiOut).logged) = 1
       /\ The(apiOut).logged[1].level =
            IF The(The(apiOut).body).event = "request_error" THEN "error" ELSE "info"
       /\ The(apiOut).logged[1].obj.event = The(The(apiOut).body).event

\* The App Router handler has logged a request_error body at error level.
C14_Witness ==
  /\ Ingested
  /\ The(apiOut).router = "app"
  /\ The(The(apiOut).body).event = "request_error"
  /\ The(apiOut).logged[1].level = "error"

\* C21: when fn succeeds, measureDurationQuiet resolves to
\* {result, durationMs} with fn's result and the durationMs it gave to its one
\* call of log.debug; it makes no call at info level, and a sink that lets
\* debug through has that one record.
C21_QuietReturnsLoggedDuration ==
  \A i \in DOMAIN measures :
    JustEnded(i, "returns") /\ measures[i].quiet =>
      LET m == measures[i]
      IN  /\ Len(m.logged) = 1
          /\ m.logged[1].level = "debug"
          /\ m.logged[1].obj.label = m.label
          /\ m.settled = Some([how |-> "resolved",
                               what |-> [result |-> The(m.fn).what,
                                         durationMs |-> Some(m.logged[1].obj.durationMs)]])
          /\ Writes(m.log) /\ (EmitterKind(m.log) = "pino" => pinoLevel = "debug")
               => Wrote(m.wrote, m.log, m.logged)

\* measureDurationQuiet ended in development after fn took some time and
\* resolved; the sink has the debug record with the duration returned.
C21_Witness ==
  \E i \in DOMAIN measures :
    /\ JustEnded(i, "returns") /\ measures[i].quiet
    /\ EmitterKind(measures[i].log) = "pino"
    /\ Len(measures[i].wrote) = 1 /\ measures[i].wrote[1].level = "debug"
    /\ measures[i].wrote[1].obj.durationMs = 2
    /\ The(measures[i].settled).what.durationMs = Some(2)

\* A POST has just been answered by one of the two handlers.
Posted == apiOut # None /\ The(apiOut).method = "POST"

\* The requests of client ip that passed the limiter at the times ts.
RECURSIVE AdmittedAt(_, _)
AdmittedAt(ip, ts) ==
  IF ts = {} THEN 0
  ELSE LET t == CHOOSE x \in ts : TRUE
       IN  (IF <<ip, t>> \in DOMAIN admitted THEN admitted[<<ip, t>>] ELSE 0)
           + AdmittedAt(ip, ts \ {t})

\* The requests of client ip counted in its window when the request just
\* answered arrived: those that passed since the window was opened, none
\* when the client has no window or its window has run out.
CountedBefore(ip) ==
  LET before == The(apiOut).before
  IN  IF ip \in DOMAIN before /\ dateNow <= before[ip].resetTime
        THEN before[ip].count ELSE 0

\* C22: with the limit RateLimit, the POSTs of one client address inside one
\* window pass until RateLimit of them have passed, and every further one is
\* answered 429 "Rate limit exceeded" without a call of the logger and
\* without a change of the store; the counter of a client is the number of
\* its requests that passed since its window was opened, and a request
\* leaves the record of every other address as it was.
C22_QuotaPerClient ==
  /\ \A ip \in DOMAIN rateLimitStore :
       LET rec == rateLimitStore[ip]
       IN  /\ rec.count <= RateLimit
           /\ rec.count = AdmittedAt(ip, {t \in Times : /\ rec.resetTime - WindowMs <= t
                                                        /\ t <= rec.resetTime})
  /\ Posted =>
       LET o == The(apiOut)
           ip == getClientIP(o.router, o.headers)
       IN  /\ o.status = 429 <=> CountedBefore(ip) >= RateLimit
           /\ o.status = 429 =>
                 /\ o.error = "Rate limit exceeded"
                 /\ o.logged = <<>> /\ o.threw = 0
                 /\ rateLimitStore = o.before
           /\ o.status # 429 => rateLimitStore[ip].count = CountedBefore(ip) + 1
           /\ \A other \in DOMAIN o.before \ {ip} :
                 rateLimitStore[other] = o.before[other]

\* One client is answered 429 at its request RateLimit + 1, while another
\* client has a record of its own.
C22_Witness ==
  /\ Posted /\ The(apiOut).status = 429
  /\ \E other \in DOMAIN rateLimitStore :
       /\ other # getClientIP(The(apiOut).router, The(apiOut).headers)
       /\ rateLimitStore[other].count < RateLimit

\* C23: in every interval of WindowMs milliseconds, at most RateLimit
\* requests of one client address pass the limiter.
C23_RollingWindow ==
  \A k \in DOMAIN admitted, from \in Times :
    AdmittedAt(k[1], {t \in Times : from <= t /\ t < from + WindowMs}) <= RateLimit

\* The body of the POST just answered is an object in which event, requestId
\* or url is absent or empty.
LacksField ==
  /\ Posted /\ The(apiOut).body # None
  /\ \E k \in {"event", "requestId", "url"} :
       k \notin DOMAIN The(The(apiOut).body) \/ The(The(apiOut).body)[k] = ""

\* What C24 says of the answer: 400 "Invalid log data structure" and no call
\* of the logger, at info or at error.
Rejected400 ==
  /\ The(apiOut).status = 400
  /\ The(apiOut).error = "Invalid log data structure"
  /\ The(apiOut).logged = <<>> /\ The(apiOut).threw = 0

\* C24 as stated: a POST whose body lacks a non-empty event, requestId or url
\* is answered 400 and produces no record, in both handlers.
C24_InvalidIs400 == LacksField => Rejected400

\* C24, amended: such a POST is answered 400 and produces no record when it
\* passes the rate limiter, which both handlers ask before they look at the
\* body; over the quota it is answered 429, also without a record.
C24_InvalidIs400WithinQuota ==
  LacksField =>
    /\ The(apiOut).logged = <<>> /\ The(apiOut).threw = 0
    /\ IF CountedBefore(getClientIP(The(apiOut).router, The(apiOut).headers)) < RateLimit
         THEN Rejected400
         ELSE The(apiOut).status = 429

\* The App Router has answered 400 to a body without requestId.
C24_Witness ==
  /\ LacksField /\ The(apiOut).status = 400 /\ The(apiOut).router = "app"
  /\ "requestId" \notin DOMAIN The(The(apiOut).body)

\* The keys the handlers set in enrichedLog.
EnrichmentKeys == {"serverTimestamp", "clientIP", "userAgent", "referer", "environment"}

\* The POST just answered carried a valid envelope, passed the rate limiter
\* and found a logger whose methods return.
ValidWithinQuota ==
  /\ Posted /\ The(apiOut).body # None /\ ~LacksField
  /\ CountedBefore(getClientIP(The(apiOut).router, The(apiOut).headers)) < RateLimit
  /\ The(apiOut).threw = 0

\* C25: a POST with a valid envelope that passes the rate limiter is answered
\* 200 and emits exactly one record, in which every field of the envelope
\* other than the enrichment keys is unchanged, serverTimestamp, clientIP,
\* userAgent and referer are present, and environment is "client".
C25_OneEnrichedRecord ==
  ValidWithinQuota =>
    /\ The(apiOut).status = 200
    /\ Len(The(apiOut).logged) = 1
    /\ LET rec == Written(The(apiOut).logged[1]).obj
           envelope == The(The(apiOut).body)
       IN  /\ \A k \in DOMAIN envelope \ EnrichmentKeys :
                 k \in DOMAIN rec /\ rec[k] = envelope[k]
           /\ EnrichmentKeys \subseteq DOMAIN rec
           /\ rec.environment = "client"

\* Processing the POST just answered failed: the body could not be read, or
\* a call of a level method of the logger threw.
ProcessingFailed ==
  /\ Posted
  /\ CountedBefore(getClientIP(The(apiOut).router, The(apiOut).headers)) < RateLimit
  /\ The(apiOut).body = None \/ The(apiOut).threw > 0

\* C26: when processing a POST fails, the handler answers 500 "Internal
\* server error", has logged exactly one record, at error severity and with
\* the message, the stack and the client address, and no exception leaves
\* the handler.
C26_FailureIs500 ==
  ProcessingFailed =>
    /\ The(apiOut).status = 500 /\ The(apiOut).error = "Internal server error"
    /\ ~The(apiOut).escaped
    /\ Len(The(apiOut).logged) = 1
    /\ The(apiOut).logged[1].level = "error"
    /\ {"error", "stack", "clientIP"} \subseteq DOMAIN The(apiOut).logged[1].obj
    /\ The(apiOut).logged[1].obj.clientIP =
         getClientIP(The(apiOut).router, The(apiOut).headers)

\* The Pages handler has just answered a request that is not a POST.
PagesNotPost ==
  apiOut # None /\ The(apiOut).router = "pages" /\ The(apiOut).method # "POST"

\* C27: the Pages handler answers OPTIONS with 200 and no body, and every
\* method other than POST and OPTIONS with 405 "Method not allowed"; in both
\* cases the store of the limiter is as the request found it and the logger
\* has not been called.
C27_PagesMethods ==
  PagesNotPost =>
    /\ IF The(apiOut).method = "OPTIONS"
         THEN The(apiOut).status = 200 /\ The(apiOut).error = ""
         ELSE The(apiOut).status = 405 /\ The(apiOut).error = "Method not allowed"
    /\ rateLimitStore = The(apiOut).before
    /\ The(apiOut).logged = <<>> /\ The(apiOut).threw = 0

\* A GET is answered 405 although its client has used up its quota.
C27_Witness ==
  /\ PagesNotPost /\ The(apiOut).method = "GET" /\ The(apiOut).status = 405
  /\ CountedBefore(getClientIP("pages", The(apiOut).headers)) = RateLimit

\* The terminal events the step has built, fetch wrappers and axios
\* interceptors alike, take their duration from the clock of the page and
\* from the reading kept when the call was issued.
BuiltTerminalsTimed ==
  \A l \in (DOMAIN logs') \ (DOMAIN logs) :
    (logs'[l].src \in {"fetch", "axios"} /\ IsTerminal(logs'[l].ev)) =>
      LET by == logs'[l].by
          issued == IF logs'[l].src = "fetch" THEN calls[by].startTime
                    ELSE IF by \in DOMAIN axios THEN axios[by].startTime
                    ELSE perfNow
      IN  /\ perfNow' = perfNow
          /\ logs'[l].ev.duration = MathRound(perfNow - issued)

\* C28: every request_success and request_error event built by the fetch
\* wrapper or by the axios interceptors has a duration that is a whole number
\* of milliseconds and not negative: the rounded difference between the
\* reading of the page's clock when the event is built and the reading of
\* the same clock when the call was issued.
C28_DurationIsElapsed ==
  /\ [](\A l \in Instrumented :
         IsTerminal(logs[l].ev) =>
           logs[l].ev.duration \in Nat /\ logs[l].ev.duration <= MathRound(perfNow))
  /\ [][BuiltTerminalsTimed]_vars

\* The module was evaluated on the server and createSimpleLogger() threw.
SinkFailed == loaded /\ ~loadWindow /\ pinoThrows

\* C29: when constructing the structured sink throws, logger is the console
\* fallback, every emitter handed out is the fallback or a silent one, a
\* level method of the fallback writes its record to the console, and the
\* failure has been reported by exactly one console warning, however many
\* emitters and children were made since.
C29_FallbackWarnsOnce ==
  SinkFailed =>
    /\ warnings = 1
    /\ \A e \in EmitterIds : EmitterKind(e) \in {"console", "silent"}
    /\ (ret # None /\ The(ret).op \in Levels /\ EmitterKind(The(ret).on) = "console") =>
         Len(records) = 1 /\ records[1].sink = "console"

\* The fields of an event that hold headers, and those that hold a body.
HeaderKeys == {"headers", "responseHeaders"}
BodyKeys == {"body", "responseBody"}

\* The events the fetch wrapper and the axios interceptors built in the
\* latest step, with the configuration they were built under.
JustBuilt == {l \in Instrumented : logs[l].outcome # "retired"}

\* C30: an event built by the instrumentation while includeHeaders is false
\* has no headers and no responseHeaders, and one built while includeBody is
\* false has no body and no responseBody, and neither has what is POSTed for
\* it; the flags are those of globalConfig when the event is built: the
\* request_start of an axios request has headers exactly when includeHeaders
\* holds then, and a body exactly when includeBody holds then.
C30_GatedByCurrentConfig ==
  \A l \in JustBuilt :
    LET ev == logs[l].ev
        sent == IF logs[l].post = 0 \/ calls[logs[l].post].body = None THEN {}
                ELSE DOMAIN The(calls[logs[l].post].body)
    IN  /\ ~logs[l].includeHeaders => (DOMAIN ev \cup sent) \cap HeaderKeys = {}
        /\ ~logs[l].includeBody => (DOMAIN ev \cup sent) \cap BodyKeys = {}
        /\ (logs[l].src = "axios" /\ ev.event = "request_start") =>
              /\ "headers" \in DOMAIN ev <=> logs[l].includeHeaders
              /\ "body" \in DOMAIN ev <=> logs[l].includeBody

\* The configuration was changed to capture headers only, and the wrapper
\* has built a request_start with the headers of init and without its body.
C30_Witness ==
  \E l \in JustBuilt :
    /\ logs[l].src = "fetch" /\ logs[l].ev.event = "request_start"
    /\ logs[l].includeHeaders /\ ~logs[l].includeBody
    /\ calls[logs[l].by].init.body # None
    /\ "headers" \in DOMAIN logs[l].ev /\ "body" \notin DOMAIN logs[l].ev

\* The part of a string before its first comma.
BeforeComma(str) ==
  LET commas == {i \in DOMAIN str : str[i] = ","}
  IN  IF commas = {} THEN str
      ELSE SubSeq(str, 1, (CHOOSE i \in commas : \A j \in commas : i <= j) - 1)

Given(o) == o # None /\ The(o) # <<>>

\* The address C31 names for the headers h.
StatedAddress(h) ==
  IF Given(h.xff) THEN BeforeComma(The(h.xff))
  ELSE IF Given(h.realIp) THEN The(h.realIp)
  ELSE IF Given(h.remote) THEN The(h.remote)
  ELSE Loopback

\* The address the handlers use: the first entry of x-forwarded-for when
\* that entry is not empty, else x-real-ip, else the remote address of the
\* connection in the Pages handler only, else 127.0.0.1.
UsedAddress(router, h) ==
  IF Given(h.xff) /\ BeforeComma(The(h.xff)) # <<>> THEN BeforeComma(The(h.xff))
  ELSE IF Given(h.realIp) THEN The(h.realIp)
  ELSE IF router = "pages" /\ Given(h.remote) THEN The(h.remote)
  ELSE Loopback

\* The one record of the store is that of address ip, and so is the
\* clientIP of whatever the POST just answered has logged.
AddressUsed(ip) ==
  /\ DOMAIN rateLimitStore = {ip}
  /\ \A i \in DOMAIN The(apiOut).logged : The(apiOut).logged[i].obj.clientIP = ip

\* C31 as stated: the address used for rate limiting and for enrichment is
\* the first entry of x-forwarded-for when the header is present and not
\* empty, else x-real-ip, else the remote address of the connection, else
\* 127.0.0.1.
C31_AddressPrecedence ==
  (Posted /\ Cardinality(DOMAIN The(apiOut).before) = 0) =>
    AddressUsed(StatedAddress(The(apiOut).headers))

\* C31, amended: the first entry of x-forwarded-for when that entry is not
\* empty, else x-real-ip when it is not empty, else, in the Pages handler
\* only, the remote address of the connection, else 127.0.0.1.
C31_AddressPrecedenceByRouter ==
  (Posted /\ Cardinality(DOMAIN The(apiOut).before) = 0) =>
    AddressUsed(UsedAddress(The(apiOut).router, The(apiOut).headers))

\* The App Router has logged a POST that carried no address header over a
\* connection with a remote address, under 127.0.0.1.
C31_Witness ==
  /\ Posted /\ The(apiOut).router = "app" /\ The(apiOut).status = 200
  /\ The(apiOut).headers.xff = None /\ The(apiOut).headers.realIp = None
  /\ The(apiOut).headers.remote = Some(<<"6">>)
  /\ The(apiOut).logged[1].obj.clientIP = Loopback

\* C32: when createChildLogger(context) is given an environment and returns
\* a scoped emitter of the structured sink, the environment bound to that
\* emitter, which is attached to its records, is the one of the context, in
\* every deployment mode.
C32_EnvironmentOverride ==
  (JustCreated /\ Has(The(The(ret).arg), "environment") /\ The(ret).fresh
     /\ emitters[The(ret).result].kind = "pino") =>
    /\ Has(emitters[The(ret).result].bindings, "environment")
    /\ emitters[The(ret).result].bindings.environment = The(The(ret).arg).environment

\* C33: where there is no browser global, no createLogger call, whatever
\* autoSetupInterceptors it passes, and no other step installs anything:
\* no fetch is wrapped, no axios interceptor is registered, and the
\* installed flag, false in a process that starts without a browser global,
\* keeps its value in every step taken without one.
C33_NoInstallWithoutWindow ==
  /\ [](~window => (fetchWraps = 0 /\ axiosUses = 0))
  /\ (~window => ~interceptorsSetup)
  /\ [][~window => interceptorsSetup' = interceptorsSetup]_vars

\* createLogger has been called twice where there is no browser global and
\* never was one, automatic setup is on, and nothing is installed.
C33_Witness ==
  /\ loaded /\ ~loadWindow /\ ~window /\ nConfigs = 2
  /\ globalConfig.autoSetupInterceptors
  /\ ~interceptorsSetup /\ fetchWraps = 0 /\ axiosUses = 0

\* The POST just answered came from a client whose window had run out: more
\* than WindowMs milliseconds after the request that opened it.
AfterWindow ==
  /\ Posted
  /\ LET o == The(apiOut)
         ip == getClientIP(o.router, o.headers)
     IN  ip \in DOMAIN o.before /\ dateNow > o.before[ip].resetTime

\* C34: a POST of a client that arrives more than WindowMs milliseconds after
\* the first request of the client's window passes the limiter, whatever the
\* count of that window was, and opens a new window with count 1.  Expiry is
\* lazy: no record is ever removed, and a step gives a client a new window
\* only by answering a POST of that client that came after its resetTime.
C34_LazyExpiry ==
  /\ [](AfterWindow =>
          LET o == The(apiOut)
              ip == getClientIP(o.router, o.headers)
          IN  /\ o.status # 429
              /\ rateLimitStore[ip] = [count |-> 1, resetTime |-> dateNow + WindowMs])
  /\ [][\A ip \in DOMAIN rateLimitStore :
          /\ ip \in DOMAIN rateLimitStore'
          /\ rateLimitStore'[ip].resetTime # rateLimitStore[ip].resetTime =>
                /\ dateNow > rateLimitStore[ip].resetTime
                /\ Posted'
                /\ getClientIP(The(apiOut').router, The(apiOut').headers) = ip]_vars

\* A client that had used up its window, so that its requests inside the
\* window were answered 429, is accepted a millisecond after the window, with
\* count 1, while the record of another client whose window has run out as
\* well is still in the store.
C34_Witness ==
  /\ AfterWindow /\ The(apiOut).status = 200
  /\ LET o == The(apiOut)
         ip == getClientIP(o.router, o.headers)
     IN  /\ o.before[ip].count = RateLimit
         /\ rateLimitStore[ip].count = 1
         /\ \E other \in DOMAIN rateLimitStore \ {ip} :
              dateNow > rateLimitStore[other].resetTime

\* What a client may put under the enrichment keys of an envelope.
Spoofs ==
  {[k \in {} |-> 0],
   [environment |-> "server", clientIP |-> <<"s">>],
   [serverTimestamp |-> 5, userAgent |-> Some("bot"), referer |-> Some("evil")],
   [serverTimestamp |-> 5, clientIP |-> Loopback, userAgent |-> None, referer |-> None,
    environment |-> "client"]}

\* The envelopes that differ from envelope in enrichment keys only.
Twins(envelope) ==
  {Spread([k \in DOMAIN envelope \ EnrichmentKeys |-> envelope[k]], sp) : sp \in Spoofs}

\* The answers a POST with this body may get from a handler that finds the
\* store as it is in before, each with the records the sink writes for it.
Outcomes(before, router, h, body) ==
  {[status |-> r.status, error |-> r.body,
    written |-> [i \in DOMAIN r.logged |-> Written(r.logged[i])]]
     : r \in Serve(before, router, "POST", h, body)}

\* C35: serverTimestamp, clientIP, userAgent, referer and environment of a
\* record come from the server and the request, never from the envelope: the
\* record of a logged POST has the time of the server, the address and the
\* headers of the request under the first four, and any envelope that
\* differs from the one received in those five keys only would have got the
\* same answers and the same records.
C35_EnrichmentFromServer ==
  (Posted /\ The(apiOut).body # None) =>
    LET o == The(apiOut)
        here == Outcomes(o.before, o.router, o.headers, o.body)
    IN  /\ \E x \in here :
              /\ x.status = o.status
              /\ x.written = [i \in DOMAIN o.logged |-> Written(o.logged[i])]
        /\ \A twin \in Twins(The(o.body)) :
              Outcomes(o.before, o.router, o.headers, Some(twin)) = here
        /\ o.status = 200 =>
              LET rec == Written(o.logged[1]).obj
              IN  /\ rec.serverTimestamp = dateNow
                  /\ rec.clientIP = getClientIP(o.router, o.headers)
                  /\ rec.userAgent = o.headers.userAgent
                  /\ rec.referer = o.headers.referer

\* An envelope that carried a clientIP and an environment of its own has
\* been logged under the address of the request.
C35_Witness ==
  /\ Ingested
  /\ Has(The(The(apiOut).body), "clientIP") /\ Has(The(The(apiOut).body), "environment")
  /\ The(The(apiOut).body).clientIP
       # getClientIP(The(apiOut).router, The(apiOut).headers)
  /\ Written(The(apiOut).logged[1]).obj.clientIP
       = getClientIP(The(apiOut).router, The(apiOut).headers)

\* C36: the count of every record of rateLimitStore is at least 1 and at
\* most the limit, and a request answered 429 leaves rateLimitStore as it
\* found it.
C36_CountWithinLimit ==
  /\ \A ip \in DOMAIN rateLimitStore :
       1 <= rateLimitStore[ip].count /\ rateLimitStore[ip].count <= RateLimit
  /\ (apiOut # None /\ The(apiOut).status = 429) => rateLimitStore = The(apiOut).before

\* A client whose count is at the limit has been answered 429, and the
\* store holds a record with count 1 as well.
C36_Witness ==
  /\ apiOut # None /\ The(apiOut).status = 429
  /\ rateLimitStore[getClientIP(The(apiOut).router, The(apiOut).headers)].count = RateLimit
  /\ \E ip \in DOMAIN rateLimitStore : rateLimitStore[ip].count = 1

\* C37: the handlers ask the limiter before they look at the body.  A POST
\* is answered 429 exactly when its client had used up its window, whether
\* its envelope is valid or not, and a POST answered 400 has been counted:
\* the count of its client is one more than the request found it.
C37_LimitBeforeValidation ==
  Posted =>
    LET o == The(apiOut)
        ip == getClientIP(o.router, o.headers)
    IN  /\ o.status = 429 <=> CountedBefore(ip) >= RateLimit
        /\ o.status = 400 =>
              /\ LacksField
              /\ ip \in DOMAIN rateLimitStore
              /\ rateLimitStore[ip].count = CountedBefore(ip) + 1

\* The first single POST after a flood of RateLimit invalid envelopes, all
\* answered 400, carries a valid envelope, comes from the same client in the
\* same window and is answered 429.
C37_Witness ==
  /\ Posted /\ nOps = 2 /\ dateNow = 0
  /\ The(apiOut).body # None /\ ~LacksField
  /\ The(apiOut).status = 429
  /\ The(apiOut).logged = <<>>

\* The partial config arg over the config cfg.
Over(arg, cfg) == IF arg = None THEN cfg ELSE Spread(cfg, The(arg))

\* The dispatch l was made under the config cfg: it carries the keys of cfg,
\* it was dropped exactly when cfg disables logging or excludes its URL, and
\* a POST it issued went to the endpoint of cfg.
Under(l, cfg, allLogs, allCalls) ==
  LET d == allLogs[l]
  IN  /\ d.enabled = cfg.enabled
      /\ d.endpoint = cfg.clientLogEndpoint
      /\ d.excludeUrls = cfg.excludeUrls
      /\ d.includeHeaders = cfg.includeHeaders
      /\ d.includeBody = cfg.includeBody
      /\ d.outcome = "dropped" <=>
            \/ ~cfg.enabled
            \/ Includes(d.ev.url, cfg.clientLogEndpoint)
            \/ \E i \in DOMAIN cfg.excludeUrls : Includes(d.ev.url, cfg.excludeUrls[i].src)
      /\ d.post # 0 => allCalls[d.post].url = cfg.clientLogEndpoint

\* C38: the configuration is one for the process.  The config after a call
\* of createLogger is what the call was given over the config it found, the
\* first call of the application finds the defaults and its second call
\* what its first call left, so that after createLogger(A) and
\* createLogger(B) the config is B over A over the defaults; the handle a
\* call returns holds logEvent and no config of its own; and every dispatch,
\* by a handle or by an interceptor, is made under the config of the process
\* at that moment.
C38_ProcessWideConfig ==
  /\ [](nConfigs = 0 => globalConfig = DefaultConfig)
  /\ [](nConfigs >= 1 =>
          /\ ret # None /\ The(ret).op = "createLogger"
          /\ The(ret).result.log = "logEvent"
          /\ globalConfig = Over(The(ret).arg, The(ret).found)
          /\ nConfigs = 1 => The(ret).found = DefaultConfig
          /\ nConfigs = 2 => \E A \in SetupArgs : The(ret).found = Over(A, DefaultConfig))
  /\ [][\A l \in DOMAIN logs' \ DOMAIN logs : Under(l, globalConfig, logs', calls')]_vars

\* After createLogger with an exclusion list and createLogger with another
\* endpoint, an event handed to a handle and an event of the fetch
\* interceptor are both on their way to the new endpoint, under a config that
\* has the exclusion list as well.
C38_Witness ==
  /\ nConfigs = 2
  /\ The(ret).arg = Some([clientLogEndpoint |-> EndpointB])
  /\ The(ret).found = Over(Some([excludeUrls |-> <<StrHealth>>]), DefaultConfig)
  /\ \E l, k \in DOMAIN logs :
       /\ logs[l].src = "app" /\ logs[k].src = "fetch"
       /\ \A d \in {l, k} :
            /\ logs[d].outcome = "posted"
            /\ logs[d].endpoint = EndpointB
            /\ logs[d].excludeUrls = <<StrHealth>>
            /\ calls[logs[d].post].url = EndpointB

====
